---------------------------- MODULE Spec2Model ----------------------------
(***************************************************************************)
(* access-lens: the heuristic metric engine (src/lib/metrics.ts), the      *)
(* visual analysis adapter (src/lib/greenpt.ts), the recommendation        *)
(* synthesizer (src/lib/llm-analysis.ts) and the two entry points of       *)
(* src/app/api/metrics/route.ts.                                           *)
(*                                                                         *)
(* JavaScript strings are TLA+ strings; a value that may be undefined is   *)
(* the empty tuple (Undefined) or a one-element tuple holding the value.   *)
(***************************************************************************)
EXTENDS Integers, Sequences, FiniteSets, TLC

VARIABLES
  html,               \* the html of the request / the argument of evaluateAllMetrics
  screenshotDataUrl,  \* the screenshotDataUrl of the request
  url,                \* the url of the request
  bodyOk,             \* request.json() resolves to a payload (FALSE: it rejects)
  env,                \* process.env: GREENPT_API_KEY and GREENPT_BASE_URL
  pc,                 \* where the request stands
  heuristicMetrics,   \* the MetricResult sequence of the heuristic engine
  greenptData,        \* what analyzeWithGreenpt resolved to
  llmRequest,           \* the LLMAnalysisRequest handed to generateLLMAnalysis
  llmAnalysis,        \* what generateLLMAnalysis resolved to
  path,               \* "fallback" or "remote": which return produced llmAnalysis
  response,           \* the response of the route: [status, body]
  trace,              \* the calls and the outbound fetches so far, in order
  visualReply,        \* what the visual service did with the fetch
  llmReply,           \* what the LLM service did with the fetch
  thrownBy,           \* the function whose promise rejected ("" if none)
  formData,           \* the form of an ingestion request: [ok, screenshot, url]
  payload,            \* the IngestPayload under construction
  browser             \* the headless browser: "none", "open" or "closed"

(***************************************************************************)
(* Optional values and small helpers.                                      *)
(***************************************************************************)
Undefined == <<>>
Some(v) == <<v>>
Truthy(o) == o # Undefined /\ o[1] # ""

\* const name = value: the one element of {value}, so that the body written over
\* name \in {value} sees a value that was computed once
The(S) == CHOOSE v \in S : TRUE

Max(a, b) == IF a > b THEN a ELSE b
Min(a, b) == IF a < b THEN a ELSE b

Ch(s, i) == SubSeq(s, i, i)

UpperToLower ==
  [A |-> "a", B |-> "b", C |-> "c", D |-> "d", E |-> "e", F |-> "f", G |-> "g",
   H |-> "h", I |-> "i", J |-> "j", K |-> "k", L |-> "l", M |-> "m", N |-> "n",
   O |-> "o", P |-> "p", Q |-> "q", R |-> "r", S |-> "s", T |-> "t", U |-> "u",
   V |-> "v", W |-> "w", X |-> "x", Y |-> "y", Z |-> "z"]

LowerCh(c) == IF c \in DOMAIN UpperToLower THEN UpperToLower[c] ELSE c

\* the characters lo..hi of s in lower case (halving keeps the recursion shallow)
RECURSIVE LowerRange(_, _, _)
LowerRange(s, lo, hi) ==
  IF lo > hi THEN ""
  ELSE IF lo = hi THEN LowerCh(Ch(s, lo))
  ELSE LET mid == (lo + hi) \div 2
       IN LowerRange(s, lo, mid) \o LowerRange(s, mid + 1, hi)

\* String.prototype.toLowerCase; also the folding a /i regular expression applies
ToLowerCase(s) == LowerRange(s, 1, Len(s))

(***************************************************************************)
(* Regular expressions.  A pattern is a tree of the nodes below; Match     *)
(* gives the end positions of the matches of a node at position i in the   *)
(* order a backtracking matcher tries them, so its first element is the    *)
(* match JavaScript reports.  A /i pattern is written in lower case and    *)
(* run on the lower-cased subject.                                         *)
(***************************************************************************)
Lit(str) == [op |-> "lit", s |-> str]
Cls(set) == [op |-> "cls", set |-> set]
NotCls(set) == [op |-> "ncls", set |-> set]
AnyCh == [op |-> "any"]
WordB == [op |-> "wordb"]
Bos == [op |-> "bos"]   \* ^ (no m flag)
Eos == [op |-> "eos"]   \* $ (no m flag)
Alt(rs) == [op |-> "alt", rs |-> rs]
Cat(rs) == [op |-> "cat", rs |-> rs]
\* c{lo,hi} for a one-character node c (every repetition of metrics.ts and
\* greenpt.ts repeats one character); hi = -1 is unbounded; greedy = FALSE is c{lo,hi}?
Rpt(c, lo, hi, greedy) == [op |-> "rpt", c |-> c, lo |-> lo, hi |-> hi, greedy |-> greedy]

Digit == {"0", "1", "2", "3", "4", "5", "6", "7", "8", "9"}
LowerLetter ==
  {"a", "b", "c", "d", "e", "f", "g", "h", "i", "j", "k", "l", "m",
   "n", "o", "p", "q", "r", "s", "t", "u", "v", "w", "x", "y", "z"}
WhiteSpace == {" ", "\n", "\t", "\r"}
WordChar == LowerLetter \cup DOMAIN UpperToLower \cup Digit \cup {"_"}

IsWordAt(s, i) == i >= 1 /\ i <= Len(s) /\ Ch(s, i) \in WordChar

\* does the one-character node c accept the character ch
CharOk(c, ch) ==
  CASE c.op = "cls" -> ch \in c.set
    [] c.op = "ncls" -> ch \notin c.set
    [] c.op = "any" -> TRUE

\* the number of consecutive characters from position i on that c accepts
RunLength(c, s, i) ==
  (CHOOSE j \in i..(Len(s) + 1) :
     /\ j = Len(s) + 1 \/ ~CharOk(c, Ch(s, j))
     /\ \A k \in i..(j - 1) : CharOk(c, Ch(s, k))) - i

RECURSIVE Match(_, _, _)
RECURSIVE MatchEach(_, _, _, _, _)
RECURSIVE MatchCat(_, _, _, _)
RECURSIVE MatchAlt(_, _, _, _)

\* the matches of r started at each of the positions ends[lo..hi], in order
MatchEach(r, s, ends, lo, hi) ==
  IF lo > hi THEN <<>>
  ELSE IF lo = hi THEN Match(r, s, ends[lo])
  ELSE LET mid == (lo + hi) \div 2
       IN MatchEach(r, s, ends, lo, mid) \o MatchEach(r, s, ends, mid + 1, hi)

MatchCat(rs, k, s, ends) ==
  IF k > Len(rs) \/ ends = <<>> THEN ends
  ELSE MatchCat(rs, k + 1, s, MatchEach(rs[k], s, ends, 1, Len(ends)))

MatchAlt(rs, k, s, i) ==
  IF k > Len(rs) THEN <<>>
  ELSE Match(rs[k], s, i) \o MatchAlt(rs, k + 1, s, i)

\* a greedy repetition tries the longest run first, a lazy one the shortest
MatchRpt(r, s, i) ==
  LET run == RunLength(r.c, s, i)
      most == IF r.hi = -1 THEN run ELSE Min(run, r.hi)
      n == most - r.lo + 1
  IN IF n <= 0 THEN <<>>
     ELSE [k \in 1..n |-> IF r.greedy THEN i + most - (k - 1) ELSE i + r.lo + (k - 1)]

Match(r, s, i) ==
  CASE r.op = "lit" ->
         IF i + Len(r.s) - 1 <= Len(s) /\ SubSeq(s, i, i + Len(r.s) - 1) = r.s
         THEN <<i + Len(r.s)>> ELSE <<>>
    [] r.op \in {"cls", "ncls", "any"} ->
         IF i <= Len(s) /\ CharOk(r, Ch(s, i)) THEN <<i + 1>> ELSE <<>>
    [] r.op = "wordb" ->
         IF IsWordAt(s, i - 1) # IsWordAt(s, i) THEN <<i>> ELSE <<>>
    [] r.op = "bos" -> IF i = 1 THEN <<i>> ELSE <<>>
    [] r.op = "eos" -> IF i = Len(s) + 1 THEN <<i>> ELSE <<>>
    [] r.op = "alt" -> MatchAlt(r.rs, 1, s, i)
    [] r.op = "cat" -> MatchCat(r.rs, 1, s, <<i>>)
    [] r.op = "rpt" -> MatchRpt(r, s, i)

\* The matches of a /g pattern in s, leftmost first and not overlapping, as
\* <<start, end>> pairs (end is the position after the match).  Starts is the set
\* of positions where the pattern matches at all.  Scan covers the positions
\* lo..hi, of which cands are the ones in Starts, when the search stands at from:
\* it gives the matches that start there and the position the search stands at
\* afterwards (the end of the last match, one further on after an empty match).
Least(S) == CHOOSE x \in S : \A y \in S : x <= y

Starts(r, s) == {i \in 1..(Len(s) + 1) : Match(r, s, i) # <<>>}

ScanAt(i, ends) ==
  [ms |-> <<<<i, ends[1]>>>>, next |-> IF ends[1] = i THEN i + 1 ELSE ends[1]]

ScanJoin(left, right) == [ms |-> left.ms \o right.ms, next |-> right.next]

RECURSIVE Scan(_, _, _, _, _, _)
RECURSIVE ScanRest(_, _, _, _, _, _)
\* the right half of a range, the search standing where the left half left it
ScanRest(r, s, cands, mid, hi, left) ==
  ScanJoin(left, Scan(r, s, {c \in cands : c > mid}, mid + 1, hi, left.next))

Scan(r, s, cands, lo, hi, from) ==
  IF cands = {} \/ from > hi THEN [ms |-> <<>>, next |-> from]
  ELSE IF lo = hi THEN ScanAt(lo, Match(r, s, lo))
  ELSE The({ScanRest(r, s, cands, (lo + hi) \div 2, hi, left)
            : left \in {Scan(r, s, {c \in cands : c <= (lo + hi) \div 2},
                             lo, (lo + hi) \div 2, from)}})

MatchAll(r, s) == Scan(r, s, Starts(r, s), 1, Len(s) + 1, 1).ms

\* String.prototype.match(/r/g)?.length ?? 0
CountAll(r, s) == Len(MatchAll(r, s))

\* String.prototype.replace(/r/g, rep) with the matches ms found in (folded) s:
\* Pieces joins, for the matches lo..hi, the text before each match and rep
RECURSIVE Pieces(_, _, _, _, _)
Pieces(s, ms, lo, hi, rep) ==
  IF lo > hi THEN ""
  ELSE IF lo = hi
  THEN SubSeq(s, IF lo = 1 THEN 1 ELSE ms[lo - 1][2], ms[lo][1] - 1) \o rep
  ELSE Pieces(s, ms, lo, (lo + hi) \div 2, rep) \o Pieces(s, ms, (lo + hi) \div 2 + 1, hi, rep)

Splice(s, ms, rep) ==
  IF ms = <<>> THEN s
  ELSE Pieces(s, ms, 1, Len(ms), rep) \o SubSeq(s, ms[Len(ms)][2], Len(s))

ReplaceAll(r, s, rep) == The({Splice(s, ms, rep) : ms \in {MatchAll(r, s)}})

\* as ReplaceAll for a /gi pattern: matched on the folded subject, spliced in s
ReplaceAllI(r, s, rep) == The({Splice(s, ms, rep) : ms \in {MatchAll(r, ToLowerCase(s))}})

\* String.prototype.match(/r/) without the g flag: the first match, or <<>>
FirstMatch(r, s) ==
  The({IF starts = {} THEN <<>> ELSE <<Least(starts), Match(r, s, Least(starts))[1]>>
       : starts \in {{i \in 1..(Len(s) + 1) : Match(r, s, i) # <<>>}}})

\* String.prototype.replace(/r/i, rep) without the g flag: the first match only
ReplaceFirstI(r, s, rep) ==
  The({IF m = <<>> THEN s ELSE SubSeq(s, 1, m[1] - 1) \o rep \o SubSeq(s, m[2], Len(s))
       : m \in {FirstMatch(r, ToLowerCase(s))}})

\* String.prototype.trim
Trim(s) ==
  LET keep == {i \in 1..Len(s) : Ch(s, i) \notin WhiteSpace}
  IN IF keep = {} THEN ""
     ELSE SubSeq(s, CHOOSE i \in keep : \A j \in keep : i <= j,
                    CHOOSE i \in keep : \A j \in keep : i >= j)

(***************************************************************************)
(* src/lib/metrics.ts.  A score under construction is the exact rational   *)
(* num/den (den > 0): the penalties divide by the sentence count and by    *)
(* twice the paragraph count.                                              *)
(***************************************************************************)
\* Math.round of the rational num/den: the nearest integer, a tie going up
MathRound(num, den) == (2 * num + den) \div (2 * den)

clampScoreNoFloor(num, den) == Min(100, MathRound(num, den))

\* const clampScore = (value) => Math.max(0, Math.min(100, Math.round(value)))
clampScore(num, den) == Max(0, Min(100, MathRound(num, den)))

ReScript == Cat(<<Lit("<script"), Rpt(AnyCh, 0, -1, FALSE), Lit("</script>")>>)
ReStyle == Cat(<<Lit("<style"), Rpt(AnyCh, 0, -1, FALSE), Lit("</style>")>>)
ReTag == Cat(<<Lit("<"), Rpt(NotCls({">"}), 1, -1, TRUE), Lit(">")>>)
ReSpaces == Rpt(Cls(WhiteSpace), 1, -1, TRUE)

stripTagsKeepTags(h) ==
  IF h = Undefined THEN ""
  ELSE Trim(ReplaceAll(ReSpaces,
              ReplaceAllI(ReStyle, ReplaceAllI(ReScript, h[1], " "), " "), " "))

\* stripTags: script and style blocks, then every tag, become a blank; runs of
\* white space collapse to one blank; the result is trimmed.  undefined gives "".
stripTags(h) ==
  IF h = Undefined THEN ""
  ELSE Trim(ReplaceAll(ReSpaces,
              ReplaceAll(ReTag,
                ReplaceAllI(ReStyle, ReplaceAllI(ReScript, h[1], " "), " "), " "), " "))

getWordCountNoGuard(text) == CountAll(ReSpaces, text) + 1

\* text.split(/\s+/).length: one more than the number of separators
getWordCount(text) == IF text # "" THEN CountAll(ReSpaces, text) + 1 ELSE 0

ReSentenceEnd == Cls({".", "!", "?"})
\* text.match(/[.!?]/g)?.length ?? 1
getSentenceCount(text) == Max(1, CountAll(ReSentenceEnd, text))

\* matchCount(regex, source) for a /gi regex: 0 for undefined and for ""
matchCount(r, source) ==
  IF Truthy(source) THEN CountAll(r, ToLowerCase(source[1])) ELSE 0

ReHeading ==
  Cat(<<Lit("<h"), Cls({"1", "2", "3", "4", "5", "6"}), Rpt(NotCls({">"}), 0, -1, TRUE), Lit(">")>>)
ReParagraph == Lit("<p")
ReSmallClass == Cat(<<Lit("text-"), Alt(<<Lit("xs"), Lit("sm")>>), WordB>>)
ReSmallInline ==
  Cat(<<Lit("font-size:"), Rpt(Cls(WhiteSpace), 0, -1, TRUE),
        Alt(<<Cat(<<Lit("1"), Cls({"0", "1", "2", "3"}), Lit("px")>>), Lit("14px")>>)>>)
ReLowContrast ==
  Alt(<<Cat(<<Lit("text-"), Alt(<<Lit("slate"), Lit("gray"), Lit("neutral")>>), Lit("-"),
              Alt(<<Cat(<<Lit("3"), Cls(Digit), Lit("0")>>),
                    Cat(<<Lit("4"), Cls(Digit), Lit("0")>>)>>)>>),
        Cat(<<Lit("#9"), Cls(Digit), Cls(Digit)>>),
        Lit("#aaa"),
        Cat(<<Lit("rgba(255,255,255,0."), Cls({"1", "2", "3", "4", "5", "6"}), Lit(")")>>)>>)
ReTightLine ==
  Alt(<<Cat(<<Lit("leading-"), Alt(<<Lit("none"), Lit("tight"), Lit("snug")>>)>>),
        Cat(<<Lit("line-height:"), Rpt(Cls(WhiteSpace), 0, -1, TRUE), Lit("1."),
              Cls({"0", "1", "2", "3"})>>)>>)
ReLightWeight == Cat(<<Lit("font-"), Alt(<<Lit("thin"), Lit("extralight"), Lit("light")>>)>>)
ReFontSizeToken ==
  Cat(<<Lit("text-"),
        Alt(<<Lit("xs"), Lit("sm"), Lit("base"), Lit("lg"), Lit("xl"), Lit("2xl"), Lit("3xl"),
              Lit("4xl"),
              Cat(<<Lit("["), Rpt(NotCls({"]"}), 1, -1, TRUE), Lit("]")>>)>>)>>)
ReMaxWidthValue == Cat(<<Lit("max-w-["), Rpt(Cls(Digit), 1, -1, TRUE)>>)
ReMaxWidth == Cat(<<ReMaxWidthValue, Alt(<<Lit("rem"), Lit("px")>>), Lit("]")>>)
ReWidthClass ==
  Cat(<<Lit("max-w-"),
        Alt(<<Lit("sm"), Lit("md"), Lit("lg"), Lit("xl"), Lit("2xl"), Lit("prose")>>)>>)

DigitValue ==
  [c \in Digit |->
     CASE c = "0" -> 0 [] c = "1" -> 1 [] c = "2" -> 2 [] c = "3" -> 3 [] c = "4" -> 4
       [] c = "5" -> 5 [] c = "6" -> 6 [] c = "7" -> 7 [] c = "8" -> 8 [] c = "9" -> 9]

\* Number(value) of the decimal digits s[lo..hi]
RECURSIVE NumberOf(_, _, _)
NumberOf(s, lo, hi) ==
  IF lo > hi THEN 0 ELSE 10 * NumberOf(s, lo, hi - 1) + DigitValue[Ch(s, hi)]

\* the texts matched by the pairs ms in s
MatchedTexts(s, ms) == {SubSeq(s, ms[k][1], ms[k][2] - 1) : k \in 1..Len(ms)}

\* one match m of ReMaxWidth in h: is the block wider than 750 pixels.  The unit is
\* compared in the case it was written in, so only a lower-case "rem" scales by 16.
IsOverlyWide(h, m) ==
  LET valueEnd == Match(ReMaxWidthValue, ToLowerCase(h), m[1])[1]
      numeric == NumberOf(h, m[1] + 7, valueEnd - 1)
      unit == SubSeq(h, valueEnd, m[2] - 2)
      pixels == IF unit = "rem" THEN numeric * 16 ELSE numeric
  IN pixels > 750

analyzeTypography(h) ==
  The({
    LET overlyWideBlocks ==
          Cardinality({k \in 1..Len(widthMatches) : IsOverlyWide(h[1], widthMatches[k])})
        hasExplicitWidthControl ==
          Len(widthMatches) > 0 \/ (Truthy(h) /\ CountAll(ReWidthClass, ToLowerCase(h[1])) > 0)
    IN [words |-> getWordCount(text),
        sentences |-> getSentenceCount(text),
        headings |-> matchCount(ReHeading, h),
        paragraphs |-> paragraphs,
        smallTextHits |-> matchCount(ReSmallClass, h) + matchCount(ReSmallInline, h),
        lowContrastHits |-> matchCount(ReLowContrast, h),
        tightLineHeights |-> matchCount(ReTightLine, h),
        lightWeightHits |-> matchCount(ReLightWeight, h),
        uniqueFontSizes |->
          IF Truthy(h)
          THEN Cardinality(MatchedTexts(h[1], MatchAll(ReFontSizeToken, ToLowerCase(h[1]))))
          ELSE 0,
        wideBlockRisk |->
          IF hasExplicitWidthControl THEN overlyWideBlocks
          ELSE IF paragraphs > 0 THEN 1 ELSE 0]
    : text \in {stripTags(h)},
      paragraphs \in {matchCount(ReParagraph, h)},
      widthMatches \in {IF Truthy(h) THEN MatchAll(ReMaxWidth, ToLowerCase(h[1])) ELSE <<>>}})

\* the recommendations whose condition holds, in the order they are listed
RECURSIVE Pushed(_, _)
Pushed(rules, k) ==
  IF k > Len(rules) THEN <<>>
  ELSE (IF rules[k][1] THEN <<rules[k][2]>> ELSE <<>>) \o Pushed(rules, k + 1)

calcReadabilityUncapped(signals) ==
  LET words == signals.words
      sentences == signals.sentences
      \* avgWordsPerSentence = words / sentences; it exceeds 20 iff words > 20 * sentences
      dense == words > 20 * sentences
      flat == (IF signals.headings = 0 THEN 15 ELSE 0)
              + (IF words < 50 THEN 10 ELSE 0)
              + signals.smallTextHits * 4
              + signals.lowContrastHits * 4
              + signals.tightLineHeights * 3
              + signals.lightWeightHits * 4
              + signals.wideBlockRisk * 6
      num == (100 - flat) * sentences - (IF dense THEN (words - 20 * sentences) * 2 ELSE 0)
  IN [id |-> "readability",
      label |-> "Readability",
      score |-> clampScore(num, sentences),
      summary |-> IF dense THEN "Dense copy detected - consider shorter sentences."
                  ELSE "Sentence cadence feels scannable.",
      recommendations |-> Pushed(<<
        <<dense, "Break long sentences into 2-3 clauses for easier scanning.">>,
        <<signals.headings < 2, "Add hierarchy with headings or section labels.">>,
        <<words < 80, "Ensure enough descriptive text to set context for the screen.">>,
        <<signals.smallTextHits # 0, "Keep body copy at 16-18px to avoid penalising readers.">>,
        <<signals.lowContrastHits # 0, "Boost color contrast to meet WCAG AA (4.5:1 for body text).">>,
        <<signals.tightLineHeights # 0, "Use 1.5-1.7 line height for multi-line paragraphs.">>,
        <<signals.wideBlockRisk # 0, "Constrain long paragraphs to ~70 characters (~44rem) for easier tracking.">>,
        <<signals.lightWeightHits # 0, "Use regular, medium, or semibold weights for core text.">>
      >>, 1),
      evidence |-> [words |-> words,
                    sentences |-> sentences,
                    headings |-> signals.headings,
                    smallTextHits |-> signals.smallTextHits,
                    lowContrastHits |-> signals.lowContrastHits,
                    tightLineHeights |-> signals.tightLineHeights,
                    lightWeightHits |-> signals.lightWeightHits,
                    wideBlockRisk |-> signals.wideBlockRisk]]

calcReadability(signals) ==
  LET words == signals.words
      sentences == signals.sentences
      \* avgWordsPerSentence = words / sentences; it exceeds 20 iff words > 20 * sentences
      dense == words > 20 * sentences
      flat == (IF signals.headings = 0 THEN 15 ELSE 0)
              + (IF words < 50 THEN 10 ELSE 0)
              + signals.smallTextHits * 4
              + Min(20, signals.lowContrastHits * 4)
              + signals.tightLineHeights * 3
              + signals.lightWeightHits * 4
              + signals.wideBlockRisk * 6
      num == (100 - flat) * sentences - (IF dense THEN (words - 20 * sentences) * 2 ELSE 0)
  IN [id |-> "readability",
      label |-> "Readability",
      score |-> clampScore(num, sentences),
      summary |-> IF dense THEN "Dense copy detected - consider shorter sentences."
                  ELSE "Sentence cadence feels scannable.",
      recommendations |-> Pushed(<<
        <<dense, "Break long sentences into 2-3 clauses for easier scanning.">>,
        <<signals.headings < 2, "Add hierarchy with headings or section labels.">>,
        <<words < 80, "Ensure enough descriptive text to set context for the screen.">>,
        <<signals.smallTextHits # 0, "Keep body copy at 16-18px to avoid penalising readers.">>,
        <<signals.lowContrastHits # 0, "Boost color contrast to meet WCAG AA (4.5:1 for body text).">>,
        <<signals.tightLineHeights # 0, "Use 1.5-1.7 line height for multi-line paragraphs.">>,
        <<signals.wideBlockRisk # 0, "Constrain long paragraphs to ~70 characters (~44rem) for easier tracking.">>,
        <<signals.lightWeightHits # 0, "Use regular, medium, or semibold weights for core text.">>
      >>, 1),
      evidence |-> [words |-> words,
                    sentences |-> sentences,
                    headings |-> signals.headings,
                    smallTextHits |-> signals.smallTextHits,
                    lowContrastHits |-> signals.lowContrastHits,
                    tightLineHeights |-> signals.tightLineHeights,
                    lightWeightHits |-> signals.lightWeightHits,
                    wideBlockRisk |-> signals.wideBlockRisk]]

ReAnyTag ==
  Cat(<<Lit("<"), Rpt(Cls(LowerLetter \cup Digit \cup {"-"}), 1, -1, TRUE)>>)
ReInteractive ==
  Cat(<<Lit("<"),
        Alt(<<Lit("button"), Lit("a"), Lit("input"), Lit("select"), Lit("textarea")>>)>>)

\* new Set(tags.map((tag) => tag.toLowerCase())).size
UniqueComponents(lower) == Cardinality(MatchedTexts(lower, MatchAll(ReAnyTag, lower)))

calcCognitiveLoad(h, signals) ==
  The({
  LET uniqueFontSizes == signals.uniqueFontSizes
      \* avgWordsPerParagraph = words / divisor
      divisor == IF signals.paragraphs # 0 THEN signals.paragraphs ELSE 1
      wordy == signals.words > 80 * divisor
      whole == 90 - uniqueComponents
               - (IF interactiveElements > 8 THEN (interactiveElements - 8) * 2 ELSE 0)
               - (IF uniqueFontSizes > 6 THEN (uniqueFontSizes - 6) * 2 ELSE 0)
      \* Math.min(20, (avgWordsPerParagraph - 80) * 0.5), over the denominator 2 * divisor
      num == whole * 2 * divisor
             - (IF wordy THEN Min(20 * 2 * divisor, signals.words - 80 * divisor) ELSE 0)
  IN [id |-> "cognitive-load",
      label |-> "Cognitive Load",
      score |-> clampScore(num, 2 * divisor),
      summary |-> IF interactiveElements > 8
                  THEN "Many simultaneous actions - consider progressive disclosure."
                  ELSE "Interaction surface looks manageable.",
      recommendations |-> Pushed(<<
        <<uniqueComponents > 30, "Consolidate visual styles to reduce decision fatigue.">>,
        <<interactiveElements > 8, "Sequence actions into smaller groups or steps.">>,
        <<uniqueFontSizes > 6, "Limit the number of simultaneous font sizes to keep typography calm.">>,
        <<wordy, "Add spacing or bullet lists to avoid dense text walls.">>
      >>, 1),
      evidence |-> [uniqueComponents |-> uniqueComponents,
                    interactiveElements |-> interactiveElements,
                    uniqueFontSizes |-> uniqueFontSizes]]
  : uniqueComponents \in {IF Truthy(h) THEN UniqueComponents(ToLowerCase(h[1])) ELSE 0},
    interactiveElements \in {matchCount(ReInteractive, h)}})

ReAlertWordsNoFailed ==
  Alt(<<Lit("error"), Lit("warning"), Lit("urgent"), Lit("alert")>>)
ReAlertWords ==
  Alt(<<Lit("error"), Lit("warning"), Lit("failed"), Lit("urgent"), Lit("alert")>>)
ReRedUsage ==
  Alt(<<Cat(<<Lit("#"), Rpt(Cls({"f"}), 0, 2, TRUE), Rpt(Cls({"f"}), 0, 2, TRUE),
              Rpt(Cls({"0"}), 0, 2, TRUE)>>),
        Lit("red")>>)
ReInput == Lit("<input")

calcStressPoints(h) ==
  The({
  LET score == 85 - alertWords * 5 - redUsage * 3
               - (IF denseInputs > 6 THEN (denseInputs - 6) * 2 ELSE 0)
  IN [id |-> "stress",
      label |-> "User Stress",
      score |-> clampScore(score, 1),
      summary |-> IF alertWords > 0
                  THEN "Warning language visible - ensure context and reassurance."
                  ELSE "No obvious stress triggers detected.",
      recommendations |-> Pushed(<<
        <<alertWords > 0, "Pair alerts with next-step guidance, not just warnings.">>,
        <<redUsage > 3, "Use calmer tones for emphasis unless truly critical.">>,
        <<denseInputs > 6, "Group related inputs and add breathing space.">>
      >>, 1),
      evidence |-> [alertWords |-> alertWords, redUsage |-> redUsage,
                    denseInputs |-> denseInputs]]
  : alertWords \in {matchCount(ReAlertWords, h)},
    redUsage \in {matchCount(ReRedUsage, h)},
    denseInputs \in {matchCount(ReInput, h)}})

ReField == Cat(<<Lit("<"), Alt(<<Lit("input"), Lit("select"), Lit("textarea")>>)>>)
ReStep == Alt(<<Lit("step"), Lit("progress"), Lit("breadcrumb")>>)

calcMemoryLowThreshold(h) ==
  The({
  LET score == 95 - (IF fields > 6 THEN (fields - 6) * 4 ELSE 0)
                  - (IF steps = 0 /\ fields > 2 THEN 10 ELSE 0)
  IN [id |-> "memory",
      label |-> "Memory Load",
      score |-> clampScore(score, 1),
      summary |-> IF fields > 6
                  THEN "High working-memory burden from many simultaneous inputs."
                  ELSE "Form load feels within working-memory limits.",
      recommendations |-> Pushed(<<
        <<fields > 6, "Stage questions or use progressive disclosure.">>,
        <<steps = 0, "Show progress or chunk tasks so users understand sequence.">>
      >>, 1),
      evidence |-> [fields |-> fields, stepIndicators |-> steps]]
  : fields \in {matchCount(ReField, h)},
    steps \in {matchCount(ReStep, h)}})

calcMemory(h) ==
  The({
  LET score == 95 - (IF fields > 6 THEN (fields - 6) * 4 ELSE 0)
                  - (IF steps = 0 /\ fields > 4 THEN 10 ELSE 0)
  IN [id |-> "memory",
      label |-> "Memory Load",
      score |-> clampScore(score, 1),
      summary |-> IF fields > 6
                  THEN "High working-memory burden from many simultaneous inputs."
                  ELSE "Form load feels within working-memory limits.",
      recommendations |-> Pushed(<<
        <<fields > 6, "Stage questions or use progressive disclosure.">>,
        <<steps = 0, "Show progress or chunk tasks so users understand sequence.">>
      >>, 1),
      evidence |-> [fields |-> fields, stepIndicators |-> steps]]
  : fields \in {matchCount(ReField, h)},
    steps \in {matchCount(ReStep, h)}})

ReSupportive ==
  Alt(<<Lit("thank"), Lit("welcome"), Lit("help"), Lit("support"), Lit("assist"),
        Lit("calm"), Lit("friendly")>>)
ReJargon ==
  Alt(<<Lit("synergy"), Lit("pipeline"), Lit("kpi"), Lit("leverage"), Lit("compliance"),
        Lit("policy")>>)

\* the supportive and the jargon counts of the text of h
EmpathyCounts(text) ==
  [supportive |-> matchCount(ReSupportive, Some(text)),
   jargon |-> matchCount(ReJargon, Some(text))]

calcEmpathyAnyTypographyHit(h, signals) ==
  The({
  LET supportive == counts.supportive
      jargon == counts.jargon
      divisor == IF signals.paragraphs # 0 THEN signals.paragraphs ELSE 1
      calm == signals.smallTextHits = 0 /\ signals.lowContrastHits = 0
              /\ signals.tightLineHeights = 0
      score == 70 + supportive * 5 - jargon * 4
               + (IF calm THEN 8 ELSE 0)
               + (IF signals.uniqueFontSizes <= 5 /\ signals.words <= 80 * divisor THEN 5 ELSE 0)
  IN [id |-> "empathy",
      label |-> "Empathy Alignment",
      score |-> clampScore(score, 1),
      summary |-> IF supportive > jargon THEN "Language leans helpful and human."
                  ELSE "Tone feels utilitarian - layer in more human cues.",
      recommendations |-> Pushed(<<
        <<supportive < 2, "Narrate intent with plain, supportive language.">>,
        <<jargon > 0, "Swap internal jargon for user-facing words.">>,
        <<signals.smallTextHits > 0 \/ signals.lowContrastHits > 0
            \/ signals.tightLineHeights > 0,
          "Keep typography calm (16px+, strong contrast) so helpful content feels trustworthy.">>
      >>, 1),
      evidence |-> [supportivePhrases |-> supportive,
                    jargonHits |-> jargon,
                    calmTypographyBonus |->
                      signals.smallTextHits = 0 /\ signals.lowContrastHits = 0]]
  : counts \in {EmpathyCounts(stripTags(h))}})

calcEmpathy(h, signals) ==
  The({
  LET supportive == counts.supportive
      jargon == counts.jargon
      divisor == IF signals.paragraphs # 0 THEN signals.paragraphs ELSE 1
      calm == signals.smallTextHits = 0 /\ signals.lowContrastHits = 0
              /\ signals.tightLineHeights = 0
      score == 70 + supportive * 5 - jargon * 4
               + (IF calm THEN 8 ELSE 0)
               + (IF signals.uniqueFontSizes <= 5 /\ signals.words <= 80 * divisor THEN 5 ELSE 0)
  IN [id |-> "empathy",
      label |-> "Empathy Alignment",
      score |-> clampScore(score, 1),
      summary |-> IF supportive > jargon THEN "Language leans helpful and human."
                  ELSE "Tone feels utilitarian - layer in more human cues.",
      recommendations |-> Pushed(<<
        <<supportive < 2, "Narrate intent with plain, supportive language.">>,
        <<jargon > 0, "Swap internal jargon for user-facing words.">>,
        <<signals.smallTextHits > 0 \/ signals.lowContrastHits > 0,
          "Keep typography calm (16px+, strong contrast) so helpful content feels trustworthy.">>
      >>, 1),
      evidence |-> [supportivePhrases |-> supportive,
                    jargonHits |-> jargon,
                    calmTypographyBonus |->
                      signals.smallTextHits = 0 /\ signals.lowContrastHits = 0]]
  : counts \in {EmpathyCounts(stripTags(h))}})

evaluateAllMetrics(h) ==
  The({<<calcReadability(typographySignals),
         calcCognitiveLoad(h, typographySignals),
         calcStressPoints(h),
         calcMemory(h),
         calcEmpathy(h, typographySignals)>>
       : typographySignals \in {analyzeTypography(h)}})

(***************************************************************************)
(* JavaScript values that come from, or go into, JSON.  Every value is a   *)
(* record tagged with its type, so that any two of them can be compared.   *)
(* An object is a function from its keys to values.                        *)
(***************************************************************************)
JNull == [t |-> "null"]
JNaN == [t |-> "NaN"]
JNum(n) == [t |-> "number", v |-> n]
JStr(s) == [t |-> "string", v |-> s]
JBool(b) == [t |-> "boolean", v |-> b]
JArr(items) == [t |-> "array", v |-> items]
JObj(fields) == [t |-> "object", v |-> fields]
EmptyObject == JObj(<<>>)

IsObject(x) == x.t = "object"
HasKey(x, k) == IsObject(x) /\ k \in DOMAIN x.v

(***************************************************************************)
(* JSON.parse on the JSON the model's replies are written in: objects,     *)
(* arrays, strings without escapes, integers, true, false, null and white  *)
(* space.  A parse gives [ok, v, next]; next is the position after the     *)
(* value.                                                                  *)
(***************************************************************************)
ParseFail == [ok |-> FALSE, v |-> JNull, next |-> 0]
Parsed(v, next) == [ok |-> TRUE, v |-> v, next |-> next]

SkipWs(s, i) == i + RunLength(Cls(WhiteSpace), s, i)
At(s, i, c) == i <= Len(s) /\ Ch(s, i) = c
StartsAt(s, i, w) == i + Len(w) - 1 <= Len(s) /\ SubSeq(s, i, i + Len(w) - 1) = w

\* a string literal whose opening quote is at i
ParseString(s, i) ==
  LET n == RunLength(NotCls({"\"", "\\", "\n"}), s, i + 1)
  IN IF At(s, i + 1 + n, "\"") THEN Parsed(JStr(SubSeq(s, i + 1, i + n)), i + n + 2)
     ELSE ParseFail

\* an integer literal at i (no leading zero unless it is the single digit 0)
ParseNumber(s, i) ==
  LET neg == At(s, i, "-")
      d == IF neg THEN i + 1 ELSE i
      n == RunLength(Cls(Digit), s, d)
  IN IF n = 0 \/ (n > 1 /\ At(s, d, "0")) THEN ParseFail
     ELSE Parsed(JNum((IF neg THEN -1 ELSE 1) * NumberOf(s, d, d + n - 1)), d + n)

RECURSIVE ParseValue(_, _)
RECURSIVE ParseMembers(_, _, _)
RECURSIVE ParseElements(_, _, _)

\* the members of an object from position i (at a key) on; acc holds those read
ParseMembers(s, i, acc) ==
  IF ~At(s, i, "\"") THEN ParseFail
  ELSE LET key == ParseString(s, i)
       IN IF ~key.ok THEN ParseFail
          ELSE LET colon == SkipWs(s, key.next)
               IN IF ~At(s, colon, ":") THEN ParseFail
                  ELSE LET val == ParseValue(s, colon + 1)
                       IN IF ~val.ok THEN ParseFail
                          ELSE LET after == SkipWs(s, val.next)
                                   fields == (key.v.v :> val.v) @@ acc
                               IN IF At(s, after, "}") THEN Parsed(JObj(fields), after + 1)
                                  ELSE IF At(s, after, ",")
                                  THEN ParseMembers(s, SkipWs(s, after + 1), fields)
                                  ELSE ParseFail

ParseElements(s, i, acc) ==
  LET val == ParseValue(s, i)
  IN IF ~val.ok THEN ParseFail
     ELSE LET after == SkipWs(s, val.next)
              items == Append(acc, val.v)
          IN IF At(s, after, "]") THEN Parsed(JArr(items), after + 1)
             ELSE IF At(s, after, ",") THEN ParseElements(s, after + 1, items)
             ELSE ParseFail

ParseValue(s, start) ==
  LET i == SkipWs(s, start)
  IN IF i > Len(s) THEN ParseFail
     ELSE IF At(s, i, "{")
     THEN LET j == SkipWs(s, i + 1)
          IN IF At(s, j, "}") THEN Parsed(EmptyObject, j + 1) ELSE ParseMembers(s, j, <<>>)
     ELSE IF At(s, i, "[")
     THEN LET j == SkipWs(s, i + 1)
          IN IF At(s, j, "]") THEN Parsed(JArr(<<>>), j + 1) ELSE ParseElements(s, j, <<>>)
     ELSE IF At(s, i, "\"") THEN ParseString(s, i)
     ELSE IF StartsAt(s, i, "null") THEN Parsed(JNull, i + 4)
     ELSE IF StartsAt(s, i, "true") THEN Parsed(JBool(TRUE), i + 4)
     ELSE IF StartsAt(s, i, "false") THEN Parsed(JBool(FALSE), i + 5)
     ELSE ParseNumber(s, i)

\* JSON.parse(text): [ok |-> FALSE] stands for the SyntaxError it throws
JsonParse(text) ==
  The({IF r.ok /\ SkipWs(text, r.next) = Len(text) + 1 THEN r ELSE ParseFail
       : r \in {ParseValue(text, 1)}})

(***************************************************************************)
(* The settled promise of an async function: its value, or a rejection.    *)
(***************************************************************************)
Returned(v) == [threw |-> FALSE, value |-> v]
Thrown == [threw |-> TRUE, value |-> JNull]

(***************************************************************************)
(* What the remote service does with one fetch.  The chat-completion       *)
(* envelope `data` is one of the shapes below.                             *)
(***************************************************************************)
FetchRejects == [kind |-> "reject"]                \* fetch() throws (transport)
HttpStatus(code) == [kind |-> "status", status |-> code]      \* response.ok is false
BodyNotJson == [kind |-> "badbody"]                \* response.json() rejects
Envelope(data) == [kind |-> "envelope", data |-> data]
NoReply == [kind |-> "none"]

DataNull == [shape |-> "null"]                     \* the body is the JSON null
DataNoChoices == [shape |-> "noChoices"]           \* {}
DataEmptyChoices == [shape |-> "emptyChoices"]     \* {choices: []}
DataNoMessage == [shape |-> "noMessage"]           \* {choices: [{}]}
DataNoContent == [shape |-> "noContent"]           \* {choices: [{message: {}}]}
DataNumberContent == [shape |-> "numberContent"]   \* {choices: [{message: {content: 7}}]}
DataContent(text) == [shape |-> "content", text |-> text]

(***************************************************************************)
(* src/lib/greenpt.ts                                                      *)
(***************************************************************************)
DefaultBaseUrl == "https://api.greenpt.ai"
CompletionsPath == "/v1/chat/completions"
NoConfig == [apiKey |-> Undefined, baseUrl |-> Undefined]

\* a ?? b
Coalesce(a, b) == IF a # Undefined THEN a ELSE b

\* const apiKey = config.apiKey ?? process.env.GREENPT_API_KEY
GreenptApiKey(config, environment) == Coalesce(config.apiKey, environment.apiKey)
\* const baseUrl = config.baseUrl ?? process.env.GREENPT_BASE_URL ?? "https://api.greenpt.ai"
GreenptBaseUrl(config, environment) ==
  Coalesce(Coalesce(config.baseUrl, environment.baseUrl), Some(DefaultBaseUrl))[1]

MissingKeyUndefinedOnly(apiKey) == apiKey = Undefined

\* if (!apiKey): undefined and "" both count as no credential
GreenptMissingKey(apiKey) == ~Truthy(apiKey)

ErrorsOnly(message) == JObj([errors |-> JArr(<<JStr(message)>>)])

GreenptNotOkThrows(status) == Thrown

GreenptNotOkGeneric(status) == Returned(ErrorsOnly("Greenpt service unavailable"))

\* if (!response.ok) return { errors: [`Greenpt API returned ${response.status}`] }
GreenptNotOk(status) == Returned(ErrorsOnly("Greenpt API returned " \o ToString(status)))

GreenptCatchRethrow == Thrown

GreenptCatchWithCause ==
  Returned(JObj([errors |-> JArr(<<JStr("Greenpt service unavailable"), JStr("fetch failed")>>)]))

\* catch (error) { return { errors: ["Greenpt service unavailable"] } }
GreenptCatch == Returned(ErrorsOnly("Greenpt service unavailable"))

\* A TLA+ string cannot hold the backquote character: the model writes it as the
\* apostrophe, which no reply of the model uses for anything else.
Fence == "'''"
ReFenceJson == Cat(<<Bos, Lit(Fence \o "json"), Rpt(Cls(WhiteSpace), 0, -1, TRUE)>>)
ReFence == Cat(<<Bos, Lit(Fence), Rpt(Cls(WhiteSpace), 0, -1, TRUE)>>)
ReFenceEnd == Cat(<<Rpt(Cls(WhiteSpace), 0, -1, TRUE), Lit(Fence), Eos>>)
ReJsonObject == Cat(<<Lit("{"), Rpt(AnyCh, 0, -1, TRUE), Lit("}")>>)
ScoreSeparator == Rpt(Cls({"\"", ":"} \cup WhiteSpace), 1, -1, TRUE)
ReOverallScore ==
  Cat(<<Lit("overallscore"), ScoreSeparator, Rpt(Cls(Digit), 1, -1, TRUE)>>)
ReOverallAnyScore ==
  Cat(<<Lit("overall"), Rpt(NotCls({"\n", "\r"}), 0, -1, TRUE), Lit("score"), ScoreSeparator,
        Rpt(Cls(Digit), 1, -1, TRUE)>>)

\* the text the adapter hands to JSON.parse: trimmed, code fences removed, and
\* cut down to the match of /\{[\s\S]*\}/ when there is one
Unfenced(responseText) ==
  ReplaceFirstI(ReFenceEnd,
    ReplaceFirstI(ReFence,
      ReplaceFirstI(ReFenceJson, Trim(responseText), ""), ""), "")

CutToObject(jsonText, jsonMatch) ==
  IF jsonMatch # <<>> THEN SubSeq(jsonText, jsonMatch[1], jsonMatch[2] - 1) ELSE jsonText

ReJsonObjectLazy == Cat(<<Lit("{"), Rpt(AnyCh, 0, -1, FALSE), Lit("}")>>)

GreenptJsonTextLazy(responseText) ==
  The({CutToObject(jsonText, FirstMatch(ReJsonObjectLazy, jsonText))
       : jsonText \in {Unfenced(responseText)}})

GreenptJsonText(responseText) ==
  The({CutToObject(jsonText, FirstMatch(ReJsonObject, jsonText))
       : jsonText \in {Unfenced(responseText)}})

\* parseInt(scoreMatch[1], 10): the group (\d+) is the digits the match m ends with
ScoreGroup(text, m) ==
  LET nondigit == {j \in m[1]..(m[2] - 1) : Ch(text, j) \notin Digit}
      last == CHOOSE j \in nondigit : \A k \in nondigit : j >= k
  IN NumberOf(text, last + 1, m[2] - 1)

\* the catch (parseError) branch: a score found in the raw text, or an errors entry
\* responseText.match(/overallScore["\s:]+(\d+)/i) || responseText.match(/overall.*score["\s:]+(\d+)/i)
ScoreMatch(folded) ==
  The({IF first # <<>> THEN first ELSE FirstMatch(ReOverallAnyScore, folded)
       : first \in {FirstMatch(ReOverallScore, folded)}})

GreenptTextFallbackNoScore(responseText) ==
  JObj([textExtraction |-> JObj([text |-> JStr(responseText)]),
        errors |-> JArr(<<JStr("Could not parse structured response from Greenpt")>>)])

GreenptTextFallback(responseText) ==
  The({IF scoreMatch # <<>>
       THEN JObj([overallScore |-> JNum(ScoreGroup(responseText, scoreMatch)),
                  textExtraction |-> JObj([text |-> JStr(responseText)])])
       ELSE JObj([textExtraction |-> JObj([text |-> JStr(responseText)]),
                  errors |-> JArr(<<JStr("Could not parse structured response from Greenpt")>>)])
       : scoreMatch \in {ScoreMatch(ToLowerCase(responseText))}})

\* lines 139-180: from the chat-completion text to the result of the adapter.  Reading
\* parsedData.overallScore inside the try throws for the JSON null, which lands in
\* the same catch as a SyntaxError.
GreenptParse(responseText) ==
  The({IF parsed.ok /\ parsed.v # JNull THEN parsed.v ELSE GreenptTextFallback(responseText)
       : parsed \in {JsonParse(GreenptJsonText(responseText))}})

\* everything after the fetch was issued, for one behaviour of the service
GreenptSettled(reply) ==
  CASE reply.kind = "reject" -> GreenptCatch
    [] reply.kind = "status" -> GreenptNotOk(reply.status)
    [] reply.kind = "badbody" -> GreenptCatch
    [] reply.kind = "envelope" ->
         \* const responseText = data.choices?.[0]?.message?.content || ""
         CASE reply.data.shape = "null" -> GreenptCatch           \* data.choices: TypeError
           [] reply.data.shape = "numberContent" -> GreenptCatch  \* (7).trim: TypeError
           [] reply.data.shape = "content" -> Returned(GreenptParse(reply.data.text))
           [] OTHER -> Returned(GreenptParse(""))

(***************************************************************************)
(* src/lib/llm-analysis.ts                                                 *)
(***************************************************************************)
RECURSIVE SumScores(_, _)
SumScores(ms, k) == IF k > Len(ms) THEN 0 ELSE ms[k].score + SumScores(ms, k + 1)

avgScoreFloor(ms) ==
  IF Len(ms) = 0 THEN JNaN ELSE JNum(SumScores(ms, 1) \div Len(ms))

\* Math.round(metrics.reduce((sum, m) => sum + m.score, 0) / metrics.length):
\* 0 / 0 is NaN for the empty list, and Math.round(NaN) is NaN
avgScore(ms) ==
  IF Len(ms) = 0 THEN JNaN ELSE JNum(MathRound(SumScores(ms, 1), Len(ms)))

ImpactInclusive(score) == IF score <= 50 THEN "high" ELSE IF score <= 70 THEN "medium" ELSE "low"

Impact(score) == IF score < 50 THEN "high" ELSE IF score < 70 THEN "medium" ELSE "low"

\* m.recommendations.map(...) of the metric m, from its k-th recommendation on
RECURSIVE MetricRecommendations(_, _)
MetricRecommendations(m, k) ==
  IF k > Len(m.recommendations) THEN <<>>
  ELSE <<JObj([title |-> JStr(m.label \o " Improvement"),
               description |-> JStr(m.recommendations[k]),
               impact |-> JStr(Impact(m.score)),
               effort |-> JStr("medium")])>>
       \o MetricRecommendations(m, k + 1)

\* input.metrics.flatMap(...)
RECURSIVE allRecommendations(_, _)
allRecommendations(ms, k) ==
  IF k > Len(ms) THEN <<>>
  ELSE MetricRecommendations(ms[k], 1) \o allRecommendations(ms, k + 1)

\* .filter((m) => m.score < 70)
RECURSIVE Below70(_, _)
Below70(ms, k) ==
  IF k > Len(ms) THEN <<>>
  ELSE (IF ms[k].score < 70 THEN <<ms[k]>> ELSE <<>>) \o Below70(ms, k + 1)

\* m put into the sorted sequence ms behind every element that does not score higher
RECURSIVE InsertByScore(_, _)
InsertByScore(ms, m) ==
  IF ms = <<>> THEN <<m>>
  ELSE IF Head(ms).score <= m.score THEN <<Head(ms)>> \o InsertByScore(Tail(ms), m)
  ELSE <<m>> \o ms

\* .sort((a, b) => a.score - b.score): ascending and stable
RECURSIVE SortByScore(_, _)
SortByScore(ms, k) ==
  IF k = 0 THEN <<>> ELSE InsertByScore(SortByScore(ms, k - 1), ms[k])

\* .slice(0, n)
SliceUncut(s, n) == s

Slice(s, n) == SubSeq(s, 1, Min(n, Len(s)))

SeverityInclusive(score) == IF score <= 50 THEN "high" ELSE "medium"

Severity(score) == IF score < 50 THEN "high" ELSE "medium"

topIssues(ms) ==
  LET worst == Slice(SortByScore(Below70(ms, 1), Len(Below70(ms, 1))), 3)
  IN [k \in 1..Len(worst) |->
        JObj([metric |-> JStr(worst[k].label),
              issue |-> JStr(worst[k].summary),
              severity |-> JStr(Severity(worst[k].score))])]

\* `${avgScore}` of a number
NumberText(n) == IF n = JNaN THEN "NaN" ELSE ToString(n.v)

generateFallbackAnalysis(input) ==
  JObj([overallScore |-> avgScore(input.metrics),
        topIssues |-> JArr(topIssues(input.metrics)),
        recommendations |-> JArr(Slice(allRecommendations(input.metrics, 1), 8)),
        summary |-> JStr("Overall accessibility score: " \o NumberText(avgScore(input.metrics))
                         \o "/100. " \o ToString(Len(topIssues(input.metrics)))
                         \o " key areas need attention.")])

\* const baseUrl = process.env.GREENPT_BASE_URL || "https://api.greenpt.ai"
LlmBaseUrl(environment) ==
  IF Truthy(environment.baseUrl) THEN environment.baseUrl[1] ELSE DefaultBaseUrl

\* if (!apiKey)
LlmMissingKey(apiKey) == ~Truthy(apiKey)

LlmCatchEmpty(input) == Returned(EmptyObject)

\* catch (error) { return generateFallbackAnalysis(input) }
LlmCatch(input) == Returned(generateFallbackAnalysis(input))

\* everything after the fetch was issued, for one behaviour of the service:
\* [threw, value, path], path telling the parsed reply from the fallback
LlmSettled(input, reply) ==
  LET fallback == LlmCatch(input) @@ [path |-> "fallback"]
  IN CASE reply.kind = "reject" -> fallback
       [] reply.kind = "status" -> fallback       \* throw new Error(`GreenPT API error: ...`)
       [] reply.kind = "badbody" -> fallback
       [] reply.kind = "envelope" ->
            \* const content = data.choices[0]?.message?.content
            CASE reply.data.shape \in {"null", "noChoices"} -> fallback   \* TypeError
              [] reply.data.shape \in {"emptyChoices", "noMessage", "noContent"} ->
                   fallback                          \* throw new Error("No content ...")
              [] reply.data.shape = "numberContent" ->
                   \* JSON.parse(7) parses the text "7"
                   Returned(JNum(7)) @@ [path |-> "remote"]
              [] reply.data.shape = "content" ->
                   IF reply.data.text = "" THEN fallback
                   ELSE The({IF parsed.ok THEN Returned(parsed.v) @@ [path |-> "remote"]
                             ELSE fallback
                             : parsed \in {JsonParse(reply.data.text)}})

(***************************************************************************)
(* src/app/api/metrics/route.ts, the full analysis entry point (45-85).    *)
(***************************************************************************)
NoInputIgnoringUrl(h, shot, u) == ~Truthy(h) /\ ~Truthy(shot)

\* if (!html && !screenshotDataUrl && !url)
NoInput(h, shot, u) == ~Truthy(h) /\ ~Truthy(shot) /\ ~Truthy(u)

\* what JSON.stringify (NextResponse.json) writes for a value: NaN becomes null
Stringified(v) ==
  IF v = JNaN THEN JNull
  ELSE IF IsObject(v) THEN JObj([k \in DOMAIN v.v |-> IF v.v[k] = JNaN THEN JNull ELSE v.v[k]])
  ELSE v

CallEvent(fn) == [ev |-> "call", fn |-> fn]
FetchEvent(service, base, apiKey, detail) ==
  [ev |-> "fetch", service |-> service, url |-> base \o CompletionsPath,
   authorization |-> "Bearer " \o apiKey[1], detail |-> detail]

NoResponse == [status |-> 0, body |-> <<>>]
NoInputRequest == [metrics |-> <<>>, greenpt |-> Undefined]

(***************************************************************************)
(* The inputs the specifications draw from.                                *)
(***************************************************************************)
MaxFragments == 2
MaxMetrics == 4

Fragments ==
  {"<h2 class=\"text-xl\">Welcome</h2>",
   "<p>Our policy helps you. Thank you!</p>",
   "<input><INPUT><input><input><select>",
   "<button class=\"text-sm\">Go</button>",
   "<a href=\"#\">red alert</a>",
   "<article class=\"max-w-prose\">News</article>",
   "error warning failed urgent alert ERROR Warning Failed Urgent ",
   "<span class=\"text-xs text-gray-400 font-light\" style=\"font-size: 12px; color: #999\">x</span>",
   "<div class=\"leading-snug\">ok</div>",
   "<div class=\"max-w-[50rem]\">",
   "a b c d e f g h i j k l m n o p q r s t u v w x y z a b c d e f g h i j k l m n o p q r s. ",
   "<script>if (a < b) { error. }</script>",
   "Step 1 of 3. Ok? Go! ",
   "Thank you, welcome! We help and support. ",
   "<i class=\"text-xs text-sm text-base text-lg text-xl text-2xl text-[9px]\"></i>"}

\* the documents made of at most n fragments
RECURSIVE Documents(_)
Documents(n) ==
  IF n = 0 THEN {""}
  ELSE Documents(n - 1) \cup {d \o f : d \in Documents(n - 1), f \in Fragments}

MetricInputs == {Undefined} \cup {Some(d) : d \in Documents(MaxFragments)}

RouteHtml ==
  {Undefined, Some(""),
   Some("<h2 class=\"text-xl\">Welcome</h2><p>Our policy helps you. Thank you!</p>"),
   Some("<input><INPUT><input><input><select><a href=\"#\">red alert</a>error warning failed urgent alert ERROR Warning Failed Urgent ")}
Screenshots == {Undefined, Some(""), Some("data:image/png;base64,iVBORw0KGgo=")}
Urls == {Undefined, Some(""), Some("https://example.com/")}

ApiKeys == {Undefined, Some(""), Some("sk-test")}
BaseUrls == {Undefined, Some("https://greenpt.example")}
Environments == [apiKey : ApiKeys, baseUrl : BaseUrls]

StatusCodes == {401, 500}

\* JSON.stringify of a value: the text a service following the wire contract sends
RECURSIVE JsonStringify(_)
RECURSIVE StringifyMembers(_, _)
RECURSIVE StringifyItems(_, _)
StringifyMember(fields, k, rest) ==
  "\"" \o k \o "\":" \o JsonStringify(fields[k])
  \o (IF rest = {} THEN "" ELSE "," \o StringifyMembers(fields, rest))

StringifyMembers(fields, keys) ==
  IF keys = {} THEN ""
  ELSE The({StringifyMember(fields, k, keys \ {k}) : k \in {CHOOSE x \in keys : TRUE}})

StringifyItems(items, i) ==
  IF i > Len(items) THEN ""
  ELSE JsonStringify(items[i])
       \o (IF i = Len(items) THEN "" ELSE "," \o StringifyItems(items, i + 1))

JsonStringify(v) ==
  CASE v.t = "null" -> "null"
    [] v.t = "boolean" -> IF v.v THEN "true" ELSE "false"
    [] v.t = "number" -> ToString(v.v)
    [] v.t = "string" -> "\"" \o v.v \o "\""
    [] v.t = "array" -> "[" \o StringifyItems(v.v, 1) \o "]"
    [] v.t = "object" -> "{" \o StringifyMembers(v.v, DOMAIN v.v) \o "}"

\* VisualAnalysisResult objects: every field is optional
VisualResults ==
  {EmptyObject,
   JObj([overallScore |-> JNum(72)]),
   JObj([overallScore |-> JNum(72),
         contrast |-> JObj([score |-> JNum(80), issues |-> JArr(<<>>)]),
         layout |-> JObj([complexity |-> JNum(40), focusableElements |-> JNum(12),
                          visualHierarchy |-> JNum(65)])]),
   JObj([contrast |-> JObj([score |-> JNum(55),
                            issues |-> JArr(<<JObj([element |-> JStr("button"),
                                                    ratio |-> JNum(3)])>>)])]),
   JObj([textExtraction |-> JObj([text |-> JStr("Sign up {now} or } later"),
                                  headings |-> JArr(<<JStr("Welcome"), JStr("Plans")>>),
                                  links |-> JArr(<<>>)]),
         errors |-> JArr(<<>>)]),
   JObj([overallScore |-> JNum(0), errors |-> JArr(<<JStr("low confidence")>>)])}

\* the ways the wire contract lets the text of a result arrive: bare, in a json
\* code fence, in a plain code fence, with white space around it
WireTexts(result) ==
  {JsonStringify(result),
   Fence \o "json\n" \o JsonStringify(result) \o "\n" \o Fence,
   Fence \o "\n" \o JsonStringify(result) \o "\n" \o Fence,
   "\n " \o JsonStringify(result) \o " \n"}

WireContents == UNION {WireTexts(result) : result \in VisualResults}

VisualContents ==
  {"",
   "{}",
   "{\"contrast\":{\"score\":80,\"issues\":[]},\"layout\":{\"complexity\":40},\"overallScore\":72}",
   Fence \o "json\n{\"overallScore\":72}\n" \o Fence,
   "Here is the analysis: {\"overallScore\":72}",
   "{\"overallScore\":72} Note: {draft}",
   "The overallScore: 64 of 100",
   "My overall rating, as a score: 58.",
   "I cannot analyze this.",
   "null",
   "5"}

LlmContents ==
  {"",
   "{\"overallScore\":72,\"topIssues\":[],\"recommendations\":[],\"summary\":\"ok\"}",
   "{}",
   "{\"overallScore\":72}",
   "null",
   "[]",
   "Sorry, I cannot help with that.",
   Fence \o "json\n{\"overallScore\":72,\"topIssues\":[],\"recommendations\":[],\"summary\":\"ok\"}\n" \o Fence}

Envelopes(contents) ==
  {DataNull, DataNoChoices, DataEmptyChoices, DataNoMessage, DataNoContent, DataNumberContent}
  \cup {DataContent(c) : c \in contents}

Replies(contents) ==
  {FetchRejects, BodyNotJson} \cup {HttpStatus(c) : c \in StatusCodes}
  \cup {Envelope(d) : d \in Envelopes(contents)}

VisualReplies == Replies(VisualContents \cup WireContents)
LlmReplies == Replies(LlmContents)

ScoreSamples == {0, 49, 50, 69, 70, 100}

\* the i-th metric of a synthesizer input: 1 + (i + 1) % 3 recommendations
SynthMetric(i, score) ==
  [id |-> "metric-" \o ToString(i),
   label |-> "Metric " \o ToString(i),
   score |-> score,
   summary |-> "Summary of metric " \o ToString(i),
   recommendations |->
     [k \in 1..(1 + ((i + 1) % 3)) |-> "Tip " \o ToString(k) \o " for metric " \o ToString(i)]]

SynthMetricLists ==
  UNION {{[i \in 1..n |-> SynthMetric(i, scores[i])] : scores \in [1..n -> ScoreSamples]}
         : n \in 0..MaxMetrics}

\* no ingestion request is under way
NoForm == [ok |-> TRUE, screenshot |-> Undefined, url |-> Undefined]
NoPayload == [warnings |-> <<>>]

(***************************************************************************)
(* The state machine.                                                      *)
(***************************************************************************)
vars == <<html, screenshotDataUrl, url, bodyOk, env, pc, heuristicMetrics,
          greenptData, llmRequest, llmAnalysis, path, response, trace, visualReply, llmReply,
          thrownBy, formData, payload, browser>>

ingestVars == <<formData, payload, browser>>

requestVars == <<html, screenshotDataUrl, url, bodyOk, env>>

NoIngestion ==
  /\ formData = NoForm
  /\ payload = NoPayload
  /\ browser = "none"

Idle ==
  /\ heuristicMetrics = <<>>
  /\ greenptData = JNull
  /\ llmRequest = NoInputRequest
  /\ llmAnalysis = JNull
  /\ path = ""
  /\ response = NoResponse
  /\ trace = <<>>
  /\ visualReply = NoReply
  /\ llmReply = NoReply
  /\ thrownBy = ""
  /\ NoIngestion

\* a request has reached the full analysis entry point
Init ==
  /\ bodyOk \in BOOLEAN
  /\ html \in (IF bodyOk THEN RouteHtml ELSE {Undefined})
  /\ screenshotDataUrl \in (IF bodyOk THEN Screenshots ELSE {Undefined})
  /\ url \in (IF bodyOk THEN Urls ELSE {Undefined})
  /\ env \in Environments
  /\ pc = "received"
  /\ Idle

\* POST, lines 46-57: the body, the 400, the heuristic engine
AnalyzeReceive ==
  /\ pc = "received"
  /\ IF ~bodyOk
     THEN /\ pc' = "threw"
          /\ thrownBy' = "request.json"
          /\ UNCHANGED <<heuristicMetrics, response, trace>>
     ELSE IF NoInput(html, screenshotDataUrl, url)
     THEN /\ response' = [status |-> 400,
                          body |-> [error |-> "Provide HTML, screenshot, or URL to analyze."]]
          /\ pc' = "responded"
          /\ UNCHANGED <<heuristicMetrics, trace, thrownBy>>
     ELSE /\ heuristicMetrics' = IF Truthy(html) THEN evaluateAllMetrics(html) ELSE <<>>
          /\ trace' = trace
                      \o (IF Truthy(html) THEN <<CallEvent("evaluateAllMetrics")>> ELSE <<>>)
                      \o <<CallEvent("analyzeWithGreenpt")>>
          /\ pc' = "greenpt_call"
          /\ UNCHANGED <<response, thrownBy>>
  /\ UNCHANGED <<requestVars, ingestVars, greenptData, llmRequest, llmAnalysis, path, visualReply, llmReply>>

\* analyzeWithGreenpt, lines 35-123: no credential, or the fetch is issued
GreenptBegin ==
  /\ pc = "greenpt_call"
  /\ LET apiKey == GreenptApiKey(NoConfig, env)
     IN IF GreenptMissingKey(apiKey)
        THEN /\ greenptData' = EmptyObject
             /\ pc' = "greenpt_settled"
             /\ UNCHANGED trace
        ELSE /\ trace' = Append(trace,
                           FetchEvent("visual", GreenptBaseUrl(NoConfig, env), apiKey,
                                      [image |-> Truthy(screenshotDataUrl),
                                       html |-> Truthy(html), url |-> Truthy(url)]))
             /\ pc' = "greenpt_fetch"
             /\ UNCHANGED greenptData
  /\ UNCHANGED <<requestVars, ingestVars, heuristicMetrics, llmRequest, llmAnalysis, path, response,
                 visualReply, llmReply, thrownBy>>

\* a failed fetch is issued again
GreenptSettleRetry ==
  /\ pc = "greenpt_fetch"
  /\ \E reply \in VisualReplies :
       LET out == GreenptSettled(reply)
       IN /\ visualReply' = reply
          /\ IF reply.kind \in {"reject", "status"}
             THEN pc' = "greenpt_call" /\ UNCHANGED <<greenptData, thrownBy>>
             ELSE IF out.threw
             THEN pc' = "threw" /\ thrownBy' = "analyzeWithGreenpt" /\ UNCHANGED greenptData
             ELSE pc' = "greenpt_settled" /\ greenptData' = out.value /\ UNCHANGED thrownBy
  /\ UNCHANGED <<requestVars, ingestVars, heuristicMetrics, llmRequest, llmAnalysis, path, response, trace,
                 llmReply>>

\* analyzeWithGreenpt, lines 125-184: the fetch settles
GreenptSettle ==
  /\ pc = "greenpt_fetch"
  /\ \E reply \in VisualReplies :
       LET out == GreenptSettled(reply)
       IN /\ visualReply' = reply
          /\ IF out.threw
             THEN pc' = "threw" /\ thrownBy' = "analyzeWithGreenpt" /\ UNCHANGED greenptData
             ELSE pc' = "greenpt_settled" /\ greenptData' = out.value /\ UNCHANGED thrownBy
  /\ UNCHANGED <<requestVars, ingestVars, heuristicMetrics, llmRequest, llmAnalysis, path, response, trace,
                 llmReply>>

\* the two calls started together: the synthesizer does not wait for the adapter
AnalyzeSynthesizeParallel ==
  /\ pc \in {"greenpt_fetch", "greenpt_settled"}
  /\ llmRequest' = [metrics |-> heuristicMetrics, greenpt |-> Some(greenptData)]
  /\ trace' = Append(trace, CallEvent("generateLLMAnalysis"))
  /\ pc' = "llm_call"
  /\ UNCHANGED <<requestVars, ingestVars, heuristicMetrics, greenptData, llmAnalysis, path, response,
                 visualReply, llmReply, thrownBy>>

\* POST, lines 59-70: the adapter has resolved; the synthesizer is called with its result
AnalyzeSynthesize ==
  /\ pc = "greenpt_settled"
  /\ llmRequest' = [metrics |-> heuristicMetrics, greenpt |-> Some(greenptData)]
  /\ trace' = Append(trace, CallEvent("generateLLMAnalysis"))
  /\ pc' = "llm_call"
  /\ UNCHANGED <<requestVars, ingestVars, heuristicMetrics, greenptData, llmAnalysis, path, response,
                 visualReply, llmReply, thrownBy>>

\* generateLLMAnalysis, lines 40-80: no credential, or the fetch is issued
LlmBegin ==
  /\ pc = "llm_call"
  /\ IF LlmMissingKey(env.apiKey)
     THEN /\ llmAnalysis' = generateFallbackAnalysis(llmRequest)
          /\ path' = "fallback"
          /\ pc' = "llm_settled"
          /\ UNCHANGED trace
     ELSE /\ trace' = Append(trace,
                        FetchEvent("llm", LlmBaseUrl(env), env.apiKey,
                                   [metrics |-> Len(llmRequest.metrics), greenpt |-> llmRequest.greenpt]))
          /\ pc' = "llm_fetch"
          /\ UNCHANGED <<llmAnalysis, path>>
  /\ UNCHANGED <<requestVars, ingestVars, heuristicMetrics, greenptData, llmRequest, response, visualReply,
                 llmReply, thrownBy>>

\* generateLLMAnalysis, lines 82-97: the fetch settles
LlmSettle ==
  /\ pc = "llm_fetch"
  /\ \E reply \in LlmReplies :
       LET out == LlmSettled(llmRequest, reply)
       IN /\ llmReply' = reply
          /\ IF out.threw
             THEN /\ pc' = "threw" /\ thrownBy' = "generateLLMAnalysis"
                  /\ UNCHANGED <<llmAnalysis, path>>
             ELSE /\ pc' = "llm_settled" /\ llmAnalysis' = out.value /\ path' = out.path
                  /\ UNCHANGED thrownBy
  /\ UNCHANGED <<requestVars, ingestVars, heuristicMetrics, greenptData, llmRequest, response, trace,
                 visualReply>>

\* POST, lines 72-77
AnalyzeRespond ==
  /\ pc = "llm_settled"
  /\ response' = [status |-> 200,
                  body |-> [metrics |-> heuristicMetrics,
                            greenpt |-> greenptData,
                            analysis |-> Stringified(llmAnalysis),
                            generatedAt |-> "now"]]
  /\ pc' = "responded"
  /\ UNCHANGED <<requestVars, ingestVars, heuristicMetrics, greenptData, llmRequest, llmAnalysis, path, trace,
                 visualReply, llmReply, thrownBy>>

\* POST, lines 78-84: whatever was thrown inside the try
AnalyzeCatch ==
  /\ pc = "threw"
  /\ response' = [status |-> 500, body |-> [error |-> "Failed to complete analysis."]]
  /\ pc' = "responded"
  /\ UNCHANGED <<requestVars, ingestVars, heuristicMetrics, greenptData, llmRequest, llmAnalysis, path, trace,
                 visualReply, llmReply, thrownBy>>

Next ==
  \/ AnalyzeReceive
  \/ GreenptBegin
  \/ GreenptSettle
  \/ AnalyzeSynthesize
  \/ LlmBegin
  \/ LlmSettle
  \/ AnalyzeRespond
  \/ AnalyzeCatch

Spec == Init /\ [][Next]_vars

(***************************************************************************)
(* evaluateAllMetrics as a function: one call on each input.                    *)
(***************************************************************************)
InitMetrics ==
  /\ html \in MetricInputs
  /\ screenshotDataUrl = Undefined
  /\ url = Undefined
  /\ bodyOk = TRUE
  /\ env = [apiKey |-> Undefined, baseUrl |-> Undefined]
  /\ pc = "evaluate"
  /\ Idle

EvaluateAllMetrics ==
  /\ pc = "evaluate"
  /\ heuristicMetrics' = evaluateAllMetrics(html)
  /\ trace' = Append(trace, CallEvent("evaluateAllMetrics"))
  /\ pc' = "evaluated"
  /\ UNCHANGED <<requestVars, ingestVars, greenptData, llmRequest, llmAnalysis, path, response, visualReply,
                 llmReply, thrownBy>>

NextMetrics == EvaluateAllMetrics

SpecMetrics == InitMetrics /\ [][NextMetrics]_vars

(***************************************************************************)
(* generateLLMAnalysis as a function: one call on each list of metrics.    *)
(***************************************************************************)
InitSynth ==
  /\ html = Undefined
  /\ screenshotDataUrl = Undefined
  /\ url = Undefined
  /\ bodyOk = TRUE
  /\ env \in [apiKey : ApiKeys, baseUrl : {Undefined}]
  /\ pc = "llm_call"
  /\ heuristicMetrics = <<>>
  /\ greenptData = JNull
  /\ llmRequest \in [metrics : SynthMetricLists, greenpt : {Undefined}]
  /\ llmAnalysis = JNull
  /\ path = ""
  /\ response = NoResponse
  /\ trace = <<CallEvent("generateLLMAnalysis")>>
  /\ visualReply = NoReply
  /\ llmReply = NoReply
  /\ thrownBy = ""
  /\ NoIngestion

NextSynth == LlmBegin \/ LlmSettle

SpecSynth == InitSynth /\ [][NextSynth]_vars

(***************************************************************************)
(* src/app/api/metrics/route.ts, the heuristic evaluation entry point      *)
(* (lines 8-29).                                                           *)
(***************************************************************************)
\* html.length < 20
MinHtmlLength == 20

InsufficientHtmlLengthOnly(h) == h # Undefined /\ Len(h[1]) < MinHtmlLength

\* if (!html || html.length < 20)
InsufficientHtml(h) == ~Truthy(h) \/ Len(h[1]) < MinHtmlLength

\* html of the payload: absent, empty, 19 and 20 characters long, and the documents
MetricsRouteHtml ==
  {Undefined, Some(""), Some("<p>twelve chars</p>"), Some("<p>thirteen char</p>")}
  \cup {Some(d) : d \in Documents(MaxFragments)}

InitMetricsRoute ==
  /\ bodyOk \in BOOLEAN
  /\ html \in (IF bodyOk THEN MetricsRouteHtml ELSE {Undefined})
  /\ screenshotDataUrl = Undefined
  /\ url = Undefined
  /\ env = [apiKey |-> Undefined, baseUrl |-> Undefined]
  /\ pc = "metrics_received"
  /\ Idle

\* POST, lines 10-20: the body, the 400, the heuristic engine
MetricsReceive ==
  /\ pc = "metrics_received"
  /\ IF ~bodyOk
     THEN /\ pc' = "metrics_threw"
          /\ thrownBy' = "request.json"
          /\ UNCHANGED <<heuristicMetrics, response, trace>>
     ELSE IF InsufficientHtml(html)
     THEN /\ response' = [status |-> 400,
                          body |-> [error |-> "Insufficient HTML supplied for heuristic scoring."]]
          /\ pc' = "responded"
          /\ UNCHANGED <<heuristicMetrics, trace, thrownBy>>
     ELSE /\ heuristicMetrics' = evaluateAllMetrics(html)
          /\ trace' = Append(trace, CallEvent("evaluateAllMetrics"))
          /\ pc' = "metrics_evaluated"
          /\ UNCHANGED <<response, thrownBy>>
  /\ UNCHANGED <<requestVars, ingestVars, greenptData, llmRequest, llmAnalysis, path, visualReply, llmReply>>

\* POST, line 21
MetricsRespond ==
  /\ pc = "metrics_evaluated"
  /\ response' = [status |-> 200, body |-> [metrics |-> heuristicMetrics, generatedAt |-> "now"]]
  /\ pc' = "responded"
  /\ UNCHANGED <<requestVars, ingestVars, heuristicMetrics, greenptData, llmRequest, llmAnalysis, path, trace,
                 visualReply, llmReply, thrownBy>>

\* POST, lines 22-28: whatever was thrown inside the try
MetricsCatch ==
  /\ pc = "metrics_threw"
  /\ response' = [status |-> 500, body |-> [error |-> "Failed to evaluate metrics."]]
  /\ pc' = "responded"
  /\ UNCHANGED <<requestVars, ingestVars, heuristicMetrics, greenptData, llmRequest, llmAnalysis, path, trace,
                 visualReply, llmReply, thrownBy>>

NextMetricsRoute ==
  \/ MetricsReceive
  \/ MetricsRespond
  \/ MetricsCatch

SpecMetricsRoute == InitMetricsRoute /\ [][NextMetricsRoute]_vars

(***************************************************************************)
(* evaluateAllMetrics on a document and again on the document with one tag *)
(* added to it: the client edits the markup between two evaluations.       *)
(***************************************************************************)
ButtonTag == "<button>"

\* s with piece put in before position p (p = Len(s) + 1 appends)
InsertAt(s, p, piece) == SubSeq(s, 1, p - 1) \o piece \o SubSeq(s, p, Len(s))

InsertEvent(before, p, words) == [ev |-> "insert", before |-> before, at |-> p, words |-> words]

InsertHtml ==
  {"",
   "Welcome <b>to</b> the site",
   "<h2 class=\"x\">Hi there</h2>",
   "a <script>b < c</script> d",
   "1 < 2 and 3",
   "x > y <i>z</i>",
   "<STYLE>p{}</style>ok go",
   "<b <script>x</script> y",
   "a<>b c\n<p>d</p>"}

InitInsert ==
  /\ html \in {Some(d) : d \in InsertHtml}
  /\ screenshotDataUrl = Undefined
  /\ url = Undefined
  /\ bodyOk = TRUE
  /\ env = [apiKey |-> Undefined, baseUrl |-> Undefined]
  /\ pc = "evaluate"
  /\ Idle

\* the markup evaluated first gets a <button> tag at some position
InsertButton ==
  /\ pc = "evaluated"
  /\ Len(trace) = 1
  /\ \E p \in 1..(Len(html[1]) + 1) :
       /\ html' = Some(InsertAt(html[1], p, ButtonTag))
       /\ trace' = Append(trace, InsertEvent(html[1], p, heuristicMetrics[1].evidence.words))
  /\ pc' = "evaluate"
  /\ UNCHANGED <<screenshotDataUrl, url, bodyOk, env, heuristicMetrics, greenptData, llmRequest,
                 llmAnalysis, path, response, visualReply, llmReply, thrownBy, ingestVars>>

NextInsert == EvaluateAllMetrics \/ InsertButton

SpecInsert == InitInsert /\ [][NextInsert]_vars

(***************************************************************************)
(* evaluateAllMetrics on documents that hold a form of three inputs.       *)
(***************************************************************************)
ThreeInputs == "<input><INPUT type=\"text\"><input name=\"q\">"

FormHtml == {Some(ThreeInputs \o d) : d \in Documents(MaxFragments)}

InitForm ==
  /\ html \in FormHtml
  /\ screenshotDataUrl = Undefined
  /\ url = Undefined
  /\ bodyOk = TRUE
  /\ env = [apiKey |-> Undefined, baseUrl |-> Undefined]
  /\ pc = "evaluate"
  /\ Idle

SpecForm == InitForm /\ [][NextMetrics]_vars

(***************************************************************************)
(* evaluateAllMetrics on markup put together from short pieces: keywords,  *)
(* colours, runs of tags, typography classes and text.                     *)
(***************************************************************************)
MarkupPieces ==
  {"error ", "urgent error ", "failed ", "Warning alert ", "#f00 hundred ",
   "<input><input><input><input>",
   "<article><aside><address><abbr>",
   "<a><button><select><textarea><p><div><span><ul><li><INPUT>",
   "<span class=\"text-gray-400 text-slate-300\" style=\"color:#999\">",
   "<h1 class=\"text-xs leading-tight font-thin\">",
   "<div class=\"max-w-[60rem]\">",
   "Hi! Ok? Go. ",
   "w w w w w w w w w w w w w w w w w w w w w w w w w w w w w w w w w w w w w w w w w w w w w w w w w w w w w w w w w w w w w w w end "}

\* the markup made of at most n pieces
RECURSIVE Markup(_)
Markup(n) ==
  IF n = 0 THEN {""}
  ELSE Markup(n - 1) \cup {d \o f : d \in Markup(n - 1), f \in MarkupPieces}

InitMarkup ==
  /\ html \in {Undefined} \cup {Some(d) : d \in Markup(MaxFragments)}
  /\ screenshotDataUrl = Undefined
  /\ url = Undefined
  /\ bodyOk = TRUE
  /\ env = [apiKey |-> Undefined, baseUrl |-> Undefined]
  /\ pc = "evaluate"
  /\ Idle

SpecMarkup == InitMarkup /\ [][NextMetrics]_vars

(***************************************************************************)
(* src/app/api/ingest/route.ts, the ingestion entry point.  The form has a *)
(* screenshot field (absent, a File or a text) and a url field.  Every     *)
(* await of the handler is one step; the remote page and the headless      *)
(* browser answer each step with success or with a rejection.              *)
(***************************************************************************)
\* const MAX_HTML_CHARS = 40_000
MaxHtmlChars == 40000

\* /^https?:\/\//i
ReHttpScheme == Cat(<<Bos, Lit("http"), Rpt(Cls({"s"}), 0, 1, TRUE), Lit("://")>>)

\* new URL(text).toString() of a text that begins with the scheme: the scheme and the
\* host in lower case, "/" for a missing path; Undefined where the constructor throws
\* (no host, or white space in the host)
UrlToString(text) ==
  LET hostStart == FirstMatch(ReHttpScheme, ToLowerCase(text))[2]
      hostEnd == hostStart + RunLength(NotCls({"/"}), text, hostStart)
      host == SubSeq(text, hostStart, hostEnd - 1)
  IN IF host = "" \/ \E i \in 1..Len(host) : Ch(host, i) \in WhiteSpace THEN Undefined
     ELSE Some(ToLowerCase(SubSeq(text, 1, hostEnd - 1))
               \o (IF hostEnd > Len(text) THEN "/" ELSE SubSeq(text, hostEnd, Len(text))))

\* (formData.get("url") ?? "").toString().trim()
RawUrl(form) == IF form.url = Undefined THEN "" ELSE Trim(form.url[1])

\* lines 52-63: the scheme is put in front where it is missing, then the URL is parsed
NormalizedUrl(rawUrl) ==
  UrlToString(IF FirstMatch(ReHttpScheme, ToLowerCase(rawUrl)) # <<>> THEN rawUrl
              ELSE "https://" \o rawUrl)

\* !screenshot: formData.get gives null, a File or a string
NoScreenshot(form) ==
  \/ form.screenshot = Undefined
  \/ (form.screenshot[1].kind = "text" /\ form.screenshot[1].value = "")

\* lines 40-49: the payload after the upload branch
Uploaded(form) ==
  IF form.screenshot # Undefined /\ form.screenshot[1].kind = "file"
  THEN [warnings |-> <<>>,
        screenshotDataUrl |->
          "data:" \o (IF form.screenshot[1].type = "" THEN "image/png" ELSE form.screenshot[1].type)
            \o ";base64," \o form.screenshot[1].base64,
        metadata |-> [source |-> "upload", bytes |-> form.screenshot[1].size]]
  ELSE [warnings |-> <<>>]

\* payload.warnings?.push(message)
Warned(p, message) == [p EXCEPT !.warnings = Append(@, message)]

\* payload.metadata ?? {}
MetadataOf(p) == IF "metadata" \in DOMAIN p THEN p.metadata ELSE <<>>
\* payload.metadata?.source ?? fallback
SourceOf(p, fallback) ==
  IF "metadata" \in DOMAIN p /\ "source" \in DOMAIN p.metadata THEN p.metadata.source
  ELSE fallback

\* lines 150-162: the catch around the remote fetch
FetchFailed(p, u, errorMessage) ==
  [metadata |-> [source |-> SourceOf(p, "placeholder"), url |-> u] @@ MetadataOf(p),
   error |-> "Failed to fetch URL: " \o errorMessage]
  @@ Warned(p, "Could not fetch " \o u \o ": " \o errorMessage
               \o ". This might be due to CORS restrictions or network issues.")

\* lines 83-89: the metadata of a successful fetch
Fetched(p, u, reply) ==
  [metadata |-> [source |-> SourceOf(p, "url"), url |-> u, status |-> reply.status,
                 contentType |-> reply.contentType] @@ MetadataOf(p)] @@ p

\* lines 91-95: the body of an image becomes the screenshot
FetchedImage(p, reply) ==
  [screenshotDataUrl |-> "data:" \o reply.contentType \o ";base64," \o reply.base64,
   metadata |-> [bytes |-> reply.bytes] @@ p.metadata] @@ p

\* text.slice(0, MAX_HTML_CHARS)
FetchedHtml(p, reply) == [fetchedHtml |-> Slice(reply.text, MaxHtmlChars)] @@ p

\* what the remote page does with the fetch of line 68
PageReplies ==
  {FetchRejects, HttpStatus(404),
   [kind |-> "page", status |-> 200, contentType |-> "image/png", base64 |-> "iVBORw0KGgo=",
    bytes |-> 8],
   [kind |-> "page", status |-> 200, contentType |-> "text/html; charset=utf-8",
    text |-> "<h1>Hello</h1>"],
   [kind |-> "page", status |-> 200, contentType |-> "", text |-> "plain"]}

\* response.statusText of the statuses of the model
StatusText(code) == IF code = 404 THEN "Not Found" ELSE "Error"

\* contentType.startsWith("image/")
IsImage(contentType) == Len(contentType) >= 6 /\ SubSeq(contentType, 1, 6) = "image/"

IngestForms ==
  {[ok |-> FALSE, screenshot |-> Undefined, url |-> Undefined]}
  \cup [ok : {TRUE},
        screenshot : {Undefined,
                      Some([kind |-> "text", value |-> ""]),
                      Some([kind |-> "file", type |-> "image/jpeg", base64 |-> "/9j/4A==",
                            size |-> 4]),
                      Some([kind |-> "file", type |-> "", base64 |-> "iVBORw0KGgo=",
                            size |-> 8])},
        url : {Undefined, Some("  "), Some(" example.com "), Some("HTTP://Example.com/docs"),
               Some("https://")}]

InitIngest ==
  /\ formData \in IngestForms
  /\ payload = NoPayload
  /\ browser = "none"
  /\ html = Undefined
  /\ screenshotDataUrl = Undefined
  /\ url = Undefined
  /\ bodyOk = TRUE
  /\ env = [apiKey |-> Undefined, baseUrl |-> Undefined]
  /\ pc = "ingest_received"
  /\ heuristicMetrics = <<>>
  /\ greenptData = JNull
  /\ llmRequest = NoInputRequest
  /\ llmAnalysis = JNull
  /\ path = ""
  /\ response = NoResponse
  /\ trace = <<>>
  /\ visualReply = NoReply
  /\ llmReply = NoReply
  /\ thrownBy = ""

analysisVars == <<requestVars, heuristicMetrics, greenptData, llmRequest, llmAnalysis, path,
                  visualReply, llmReply>>

\* lines 27-64: the form, the 400, the upload, the URL
IngestReceive ==
  /\ pc = "ingest_received"
  /\ IF ~formData.ok
     THEN /\ pc' = "ingest_threw"
          /\ thrownBy' = "request.formData"
          /\ UNCHANGED <<payload, response>>
     ELSE IF NoScreenshot(formData) /\ RawUrl(formData) = ""
     THEN /\ response' = [status |-> 400,
                          body |-> [error |-> "Provide a screenshot or a URL to ingest."]]
          /\ pc' = "responded"
          /\ UNCHANGED <<payload, thrownBy>>
     ELSE /\ IF RawUrl(formData) = ""
             THEN payload' = Uploaded(formData) /\ pc' = "ingest_finish"
             ELSE IF NormalizedUrl(RawUrl(formData)) = Undefined
             THEN /\ payload' = Warned(Uploaded(formData),
                                       "Provided URL is invalid. Skipping remote fetch.")
                  /\ pc' = "ingest_finish"
             ELSE payload' = Uploaded(formData) /\ pc' = "ingest_fetch"
          /\ UNCHANGED <<response, thrownBy>>
  /\ UNCHANGED <<analysisVars, formData, browser, trace>>

\* lines 66-99 and the catch of 150-162: the fetch of the page
IngestFetch ==
  /\ pc = "ingest_fetch"
  /\ \E reply \in PageReplies :
       LET u == NormalizedUrl(RawUrl(formData))[1]
       IN /\ trace' = Append(trace, [ev |-> "fetch", service |-> "page", url |-> u])
          /\ CASE reply.kind = "reject" ->
                    /\ payload' = FetchFailed(payload, u, "fetch failed")
                    /\ pc' = "ingest_finish"
               [] reply.kind = "status" ->
                    /\ payload' = FetchFailed(payload, u, "HTTP " \o ToString(reply.status)
                                                          \o ": " \o StatusText(reply.status))
                    /\ pc' = "ingest_finish"
               [] reply.kind = "page" /\ IsImage(reply.contentType) ->
                    /\ payload' = FetchedImage(Fetched(payload, u, reply), reply)
                    /\ pc' = "ingest_finish"
               [] OTHER ->
                    /\ payload' = FetchedHtml(Fetched(payload, u, reply), reply)
                    /\ pc' = "ingest_launch"
  /\ UNCHANGED <<analysisVars, formData, browser, response, thrownBy>>

\* lines 143-148: the catch around the screenshot generation; the message is the
\* library's, here the name of the step that rejected
ScreenshotFailed(step) ==
  /\ payload' = Warned(payload, "Could not generate screenshot: " \o step
                                  \o " failed. HTML analysis will still work.")
  /\ pc' = "ingest_finish"

\* lines 106-129: await puppeteer.launch(...)
IngestLaunch ==
  /\ pc = "ingest_launch"
  /\ trace' = Append(trace, CallEvent("puppeteer.launch"))
  /\ \/ browser' = "open" /\ pc' = "ingest_page" /\ UNCHANGED payload
     \/ ScreenshotFailed("puppeteer.launch") /\ UNCHANGED browser
  /\ UNCHANGED <<analysisVars, formData, response, thrownBy>>

\* line 130: await browser.newPage()
IngestNewPage ==
  /\ pc = "ingest_page"
  /\ trace' = Append(trace, CallEvent("browser.newPage"))
  /\ \/ pc' = "ingest_viewport" /\ UNCHANGED payload
     \/ ScreenshotFailed("browser.newPage")
  /\ UNCHANGED <<analysisVars, formData, browser, response, thrownBy>>

\* line 131: await page.setViewport(...)
IngestSetViewport ==
  /\ pc = "ingest_viewport"
  /\ trace' = Append(trace, CallEvent("page.setViewport"))
  /\ \/ pc' = "ingest_goto" /\ UNCHANGED payload
     \/ ScreenshotFailed("page.setViewport")
  /\ UNCHANGED <<analysisVars, formData, browser, response, thrownBy>>

\* lines 133-136: await page.goto(normalizedUrl, {timeout: 30000}); a timeout rejects
IngestGoto ==
  /\ pc = "ingest_goto"
  /\ trace' = Append(trace, CallEvent("page.goto"))
  /\ \/ pc' = "ingest_screenshot" /\ UNCHANGED payload
     \/ ScreenshotFailed("page.goto")
  /\ UNCHANGED <<analysisVars, formData, browser, response, thrownBy>>

\* line 138: await page.screenshot(...)
IngestScreenshot ==
  /\ pc = "ingest_screenshot"
  /\ trace' = Append(trace, CallEvent("page.screenshot"))
  /\ \/ pc' = "ingest_close" /\ UNCHANGED payload
     \/ ScreenshotFailed("page.screenshot")
  /\ UNCHANGED <<analysisVars, formData, browser, response, thrownBy>>

\* lines 139-141: await browser.close(), then the screenshot goes into the payload; a
\* close that rejects has not closed the browser
IngestClose ==
  /\ pc = "ingest_close"
  /\ trace' = Append(trace, CallEvent("browser.close"))
  /\ \/ /\ browser' = "closed"
        /\ payload' = [screenshotDataUrl |-> "data:image/png;base64,iVBORw0KGgo="] @@ payload
        /\ pc' = "ingest_finish"
     \/ ScreenshotFailed("browser.close") /\ UNCHANGED browser
  /\ UNCHANGED <<analysisVars, formData, response, thrownBy>>

\* lines 166-171: the note, and the payload as the response
IngestRespond ==
  /\ pc = "ingest_finish"
  /\ payload' =
       IF "screenshotDataUrl" \notin DOMAIN payload
       THEN [note |-> "No screenshot detected. You can still run textual analysis, but visual metrics will be limited."]
            @@ payload
       ELSE payload
  /\ response' = [status |-> 200, body |-> payload']
  /\ pc' = "responded"
  /\ UNCHANGED <<analysisVars, formData, browser, trace, thrownBy>>

\* lines 172-178: whatever was thrown outside the inner catches
IngestCatch ==
  /\ pc = "ingest_threw"
  /\ response' = [status |-> 500, body |-> [error |-> "Failed to process ingestion request."]]
  /\ pc' = "responded"
  /\ UNCHANGED <<analysisVars, formData, payload, browser, trace, thrownBy>>

NextIngest ==
  \/ IngestReceive
  \/ IngestFetch
  \/ IngestLaunch
  \/ IngestNewPage
  \/ IngestSetViewport
  \/ IngestGoto
  \/ IngestScreenshot
  \/ IngestClose
  \/ IngestRespond
  \/ IngestCatch

SpecIngest == InitIngest /\ [][NextIngest]_vars

(***************************************************************************)
(* The properties.                                                         *)
(***************************************************************************)
Absent(o) == o \in {Undefined, Some("")}
AnalysisFields == {"overallScore", "topIssues", "recommendations", "summary"}
FetchCount == Cardinality({k \in 1..Len(trace) : trace[k].ev = "fetch"})

\* the remote outcomes after which the synthesizer has nothing to parse
LlmFailure(reply) ==
  \/ reply.kind \in {"reject", "status", "badbody"}
  \/ /\ reply.kind = "envelope"
     /\ \/ reply.data.shape \in {"null", "noChoices", "emptyChoices", "noMessage", "noContent"}
        \/ reply.data.shape = "content" /\ ~JsonParse(reply.data.text).ok

\* the remote outcomes after which the adapter has no parsed object
VisualFailure(reply) ==
  \/ reply.kind \in {"reject", "status", "badbody"}
  \/ /\ reply.kind = "envelope"
     /\ \/ reply.data.shape # "content"
        \/ reply.data.shape = "content" /\ ~JsonParse(GreenptJsonText(reply.data.text)).ok

\* C1: for every html, undefined and "" included, evaluateAllMetrics returns five
\* results and the score of each is an integer from 0 to 100.
C1_ScoresWithinRange ==
  pc = "evaluated" =>
    /\ Len(heuristicMetrics) = 5
    /\ \A i \in 1..5 : heuristicMetrics[i].score \in 0..100

\* the stress score of a document with eighteen alert words: 85 - 90 clamped to 0
C1_Witness ==
  /\ pc = "evaluated"
  /\ html # Undefined
  /\ heuristicMetrics[3].score = 0
  /\ heuristicMetrics[3].evidence.alertWords = 18

\* C2: generateLLMAnalysis never rejects, and after a transport exception, a
\* non-success status, a reply without choices or content, or content that is not
\* valid JSON, it resolves to exactly generateFallbackAnalysis of its input.
C2_FailuresGiveFallback ==
  /\ thrownBy # "generateLLMAnalysis"
  /\ (pc = "llm_settled" /\ LlmFailure(llmReply))
       => llmAnalysis = generateFallbackAnalysis(llmRequest)

\* the service answered 401 or 500 to a request with five metrics
C2_Witness ==
  /\ pc = "llm_settled"
  /\ llmReply.kind = "status"
  /\ Len(llmRequest.metrics) = 5
  /\ llmAnalysis = generateFallbackAnalysis(llmRequest)

\* C3: every value generateLLMAnalysis resolves to has the four fields overallScore,
\* topIssues, recommendations and summary, also when the remote content is valid
\* JSON that lacks fields or is not an object.
C3_AnalysisComplete ==
  pc = "llm_settled" => \A k \in AnalysisFields : HasKey(llmAnalysis, k)

\* C4: analyzeWithGreenpt never rejects: whatever the service does (fetch throws,
\* non-success status, body that is not JSON, envelope without choices or content,
\* content that cannot be parsed), it resolves to a result object.
C4_AdapterNeverThrows ==
  /\ thrownBy # "analyzeWithGreenpt"
  /\ (pc = "greenpt_settled" /\ VisualFailure(visualReply)) => IsObject(greenptData)

\* the body of the reply was not JSON: the outer catch made the result
C4_Witness ==
  /\ pc = "greenpt_settled"
  /\ visualReply.kind = "badbody"
  /\ greenptData = ErrorsOnly("Greenpt service unavailable")

\* C5: the full analysis never answers 500 because a remote call failed: a request
\* with at least one of html, screenshotDataUrl and url ends, whatever the two
\* remote calls do, in a 200 that carries metrics, greenpt, analysis and generatedAt.
C5_RemoteFailuresAbsorbed ==
  /\ response.status = 500 => thrownBy = "request.json"
  /\ (pc = "responded" /\ bodyOk /\ ~(Absent(html) /\ Absent(screenshotDataUrl) /\ Absent(url)))
       => /\ response.status = 200
          /\ DOMAIN response.body = {"metrics", "greenpt", "analysis", "generatedAt"}

\* both remote calls failed (transport, then status) and the answer is a 200
C5_Witness ==
  /\ pc = "responded"
  /\ visualReply.kind = "reject"
  /\ llmReply.kind = "status"
  /\ response.status = 200
  /\ response.body.greenpt = ErrorsOnly("Greenpt service unavailable")

\* C6: each response answered through the fallback synthesis carries an
\* analysis.overallScore that is an integer from 0 to 100, also for a request with
\* only a screenshot or a url, whose list of heuristic metrics is empty.
C6_FallbackScoreWithinRange ==
  (pc = "responded" /\ response.status = 200 /\ path = "fallback")
    => /\ response.body.analysis.v.overallScore.t = "number"
       /\ response.body.analysis.v.overallScore.v \in 0..100

\* r is the integer nearest to sum / n, a tie going up
IsRoundedMean(r, sum, n) == 2 * n * r - n <= 2 * sum /\ 2 * sum < 2 * n * r + n

\* C7: without a credential the synthesizer returns as overallScore the arithmetic
\* mean of the metric scores rounded to the nearest integer, for every non-empty list
\* of metrics with scores from 0 to 100.
C7_OverallScoreIsRoundedMean ==
  (pc = "llm_settled" /\ Absent(env.apiKey) /\ Len(llmRequest.metrics) > 0)
    => /\ llmAnalysis.v.overallScore.t = "number"
       /\ IsRoundedMean(llmAnalysis.v.overallScore.v,
                        SumScores(llmRequest.metrics, 1), Len(llmRequest.metrics))

\* the scores 49 and 50 have the mean 49.5, which rounds to 50
C7_Witness ==
  /\ pc = "llm_settled"
  /\ env.apiKey = Undefined
  /\ Len(llmRequest.metrics) = 2
  /\ llmRequest.metrics[1].score = 49
  /\ llmRequest.metrics[2].score = 50
  /\ llmAnalysis.v.overallScore = JNum(50)

\* the score of the metric an issue names (the labels of a request are distinct)
IssueScore(issue) ==
  (CHOOSE m \in {llmRequest.metrics[i] : i \in 1..Len(llmRequest.metrics)}
     : m.label = issue.v.metric.v).score
IssueLabels(issues) == {issues[k].v.metric.v : k \in 1..Len(issues)}

TopIssuesOk(issues) ==
  /\ Len(issues) <= 3
  /\ \A k \in 1..Len(issues) :
       /\ \E i \in 1..Len(llmRequest.metrics) :
            llmRequest.metrics[i].label = issues[k].v.metric.v
       /\ IssueScore(issues[k]) < 70
       /\ issues[k].v.severity.v = IF IssueScore(issues[k]) < 50 THEN "high" ELSE "medium"
  /\ \A k, l \in 1..Len(issues) : k < l => IssueScore(issues[k]) <= IssueScore(issues[l])
  /\ \A i \in 1..Len(llmRequest.metrics) :
       (llmRequest.metrics[i].score < 70 /\ llmRequest.metrics[i].label \notin IssueLabels(issues))
         => \A k \in 1..Len(issues) : IssueScore(issues[k]) <= llmRequest.metrics[i].score

\* C8: the topIssues of the fallback are at most 3, each names a metric that scores
\* below 70, they ascend by score, no metric below 70 is left out while a higher one
\* is included, and the severity is "high" below 50 and "medium" otherwise.
C8_TopIssues ==
  (pc = "llm_settled" /\ path = "fallback") => TopIssuesOk(llmAnalysis.v.topIssues.v)

\* four metrics below 70, one of them left out, both severities present
C8_Witness ==
  /\ pc = "llm_settled"
  /\ path = "fallback"
  /\ Len(llmRequest.metrics) = 4
  /\ \A i \in 1..4 : llmRequest.metrics[i].score < 70
  /\ Len(llmAnalysis.v.topIssues.v) = 3
  /\ llmAnalysis.v.topIssues.v[1].v.severity.v = "high"
  /\ llmAnalysis.v.topIssues.v[3].v.severity.v = "medium"
  /\ IssueScore(llmAnalysis.v.topIssues.v[3]) = 50

\* C9: with no credential a full analysis issues no fetch at all, the adapter
\* resolves to the empty object (no errors entry), the synthesizer resolves to the
\* fallback aggregation, with and without a configured base URL.
C9_NoCredentialNoFetch ==
  Absent(env.apiKey)
    => /\ FetchCount = 0
       /\ pc \in {"greenpt_settled", "llm_call", "llm_settled"} => greenptData = EmptyObject
       /\ pc = "llm_settled" => llmAnalysis = generateFallbackAnalysis(llmRequest)
       /\ (pc = "responded" /\ response.status = 200) => response.body.greenpt = EmptyObject

\* a base URL is configured, a credential is not: answered without any fetch
C9_Witness ==
  /\ pc = "responded"
  /\ response.status = 200
  /\ env.apiKey = Undefined
  /\ env.baseUrl # Undefined
  /\ FetchCount = 0
  /\ response.body.analysis = Stringified(generateFallbackAnalysis(llmRequest))

\* C10: a request whose body was read is answered 400 exactly when html,
\* screenshotDataUrl and url are all absent or empty, and then neither the heuristic
\* engine nor the adapter nor the synthesizer was called and nothing was fetched.
C10_ClientErrorIffNoInput ==
  /\ (pc = "responded" /\ bodyOk)
       => (response.status = 400
             <=> (Absent(html) /\ Absent(screenshotDataUrl) /\ Absent(url)))
  /\ response.status = 400 => trace = <<>>

\* html is the empty string, the other two are absent: 400 and nothing called
C10_Witness ==
  /\ pc = "responded"
  /\ response.status = 400
  /\ html = Some("")
  /\ screenshotDataUrl = Undefined
  /\ url = Undefined
  /\ trace = <<>>

MetricIds == <<"readability", "cognitive-load", "stress", "memory", "empathy">>

\* C11 as stated: the evaluation entry point answers 400 exactly when html is present
\* and shorter than 20 characters, and otherwise returns the five records; a
\* request without html is among the accepted ones.
C11_RejectsOnlyShortHtml ==
  (pc = "responded" /\ bodyOk) =>
    /\ response.status = 400 <=> (html # Undefined /\ Len(html[1]) < MinHtmlLength)
    /\ response.status # 400 =>
         /\ response.status = 200
         /\ Len(response.body.metrics) = 5

\* C11 amended: the evaluation entry point answers 400 exactly when html is absent,
\* empty or shorter than 20 characters; every other request is answered 200 with the
\* five records evaluateAllMetrics gives for its html.
C11_RejectsAbsentOrShortHtml ==
  (pc = "responded" /\ bodyOk) =>
    /\ response.status = 400 <=> (html = Undefined \/ Len(html[1]) < MinHtmlLength)
    /\ response.status # 400 =>
         /\ response.status = 200
         /\ response.body.metrics = evaluateAllMetrics(html)
         /\ [i \in 1..5 |-> response.body.metrics[i].id] = MetricIds

\* html of exactly 20 characters was scored
C11_Witness ==
  /\ pc = "responded"
  /\ bodyOk
  /\ html # Undefined
  /\ Len(html[1]) = MinHtmlLength
  /\ response.status = 200
  /\ Len(response.body.metrics) = 5

CallIndexes(fn) == {k \in 1..Len(trace) : trace[k] = CallEvent(fn)}
FetchIndexes(service) ==
  {k \in 1..Len(trace) : trace[k].ev = "fetch" /\ trace[k].service = service}
VisualStarted == CallIndexes("analyzeWithGreenpt") \cup FetchIndexes("visual")
LlmStarted == CallIndexes("generateLLMAnalysis") \cup FetchIndexes("llm")

\* C12: in a full-analysis request the heuristic engine has finished before the
\* visual adapter is called or fetches; generateLLMAnalysis is called, and fetches,
\* only after the adapter has returned; and the greenpt field it receives is the
\* value the adapter resolved to for this request's visual reply.
C12_StagesInSequence ==
  /\ VisualStarted # {} =>
       /\ \A v \in VisualStarted : \A h \in CallIndexes("evaluateAllMetrics") : h < v
       /\ Truthy(html) => (CallIndexes("evaluateAllMetrics") # {} /\ Len(heuristicMetrics) = 5)
  /\ LlmStarted # {} =>
       /\ CallIndexes("analyzeWithGreenpt") # {}
       /\ \A l \in LlmStarted : \A v \in VisualStarted : v < l
       /\ pc \notin {"received", "greenpt_call", "greenpt_fetch"}
       /\ FetchIndexes("visual") # {} => visualReply # NoReply
       /\ llmRequest.greenpt = Some(greenptData)
       /\ pc = "llm_call" =>
            greenptData = IF FetchIndexes("visual") = {} THEN EmptyObject
                          ELSE GreenptSettled(visualReply).value

\* a request with html ran all three stages and both fetches, the visual service
\* having answered with an object
C12_Witness ==
  /\ pc = "responded"
  /\ response.status = 200
  /\ Len(trace) = 5
  /\ Truthy(html)
  /\ visualReply.kind = "envelope"
  /\ IsObject(greenptData)
  /\ HasKey(greenptData, "overallScore")
  /\ llmRequest.greenpt = Some(greenptData)

\* C13: in a full-analysis request at most one request goes to the visual service
\* and at most one to the LLM service, each adapter being called at most once; once
\* a call has settled, failed or not, no further request follows it.
C13_AtMostOneCallPerStage ==
  /\ Cardinality(FetchIndexes("visual")) <= 1
  /\ Cardinality(FetchIndexes("llm")) <= 1
  /\ Cardinality(CallIndexes("analyzeWithGreenpt")) <= 1
  /\ Cardinality(CallIndexes("generateLLMAnalysis")) <= 1
  /\ visualReply # NoReply => (Cardinality(FetchIndexes("visual")) = 1 /\ pc # "greenpt_fetch")
  /\ llmReply # NoReply => (Cardinality(FetchIndexes("llm")) = 1 /\ pc # "llm_fetch")

\* both remote calls failed (transport exception, then HTTP 500) and the request
\* was answered after exactly one fetch to each service
C13_Witness ==
  /\ pc = "responded"
  /\ visualReply = FetchRejects
  /\ llmReply = HttpStatus(500)
  /\ Cardinality(FetchIndexes("visual")) = 1
  /\ Cardinality(FetchIndexes("llm")) = 1

\* C14 as stated: after the visual service answered 500, the adapter's result is the
\* errors entry naming 500 and the synthesizer takes its fallback path: the
\* analysis is generateFallbackAnalysis of the heuristic metrics.
C14_Visual500GivesFallback ==
  (pc = "llm_settled" /\ visualReply = HttpStatus(500)) =>
    /\ greenptData = ErrorsOnly("Greenpt API returned 500")
    /\ path = "fallback"
    /\ llmAnalysis = generateFallbackAnalysis(llmRequest)

\* C14 amended: after the visual service answered 500, the adapter's result is the
\* errors entry naming 500; the synthesizer is called with it and sends its own
\* request to the LLM service; it takes its fallback path, giving
\* generateFallbackAnalysis of the heuristic metrics, exactly when that request fails.
C14_Visual500ThenLlmDecides ==
  (pc = "llm_settled" /\ visualReply = HttpStatus(500)) =>
    /\ greenptData = ErrorsOnly("Greenpt API returned 500")
    /\ llmRequest = [metrics |-> heuristicMetrics, greenpt |-> Some(greenptData)]
    /\ Cardinality(FetchIndexes("llm")) = 1
    /\ path = "fallback" <=> LlmFailure(llmReply)
    /\ path = "fallback" => llmAnalysis = generateFallbackAnalysis(llmRequest)

\* both services answered 500 to a request with html: the analysis is the fallback
C14_Witness ==
  /\ pc = "llm_settled"
  /\ visualReply = HttpStatus(500)
  /\ llmReply = HttpStatus(500)
  /\ Len(heuristicMetrics) = 5
  /\ path = "fallback"
  /\ llmAnalysis = generateFallbackAnalysis(llmRequest)

\* the entries of the errors list of an adapter result whose only field is errors
OnlyErrors(result) ==
  IF IsObject(result) /\ DOMAIN result.v = {"errors"} /\ result.v.errors.t = "array"
  THEN Some(result.v.errors.v) ELSE Undefined

\* C15: when the visual service answers with a non-success status, the result of
\* analyzeWithGreenpt has the single field errors with the single entry
\* "Greenpt API returned <status>"; when the call fails with a transport exception,
\* it has the single field errors with the single entry "Greenpt service unavailable".
C15_FailuresGiveSingleError ==
  /\ (pc = "greenpt_settled" /\ visualReply.kind = "status") =>
       OnlyErrors(greenptData)
         = Some(<<JStr("Greenpt API returned " \o ToString(visualReply.status))>>)
  /\ (pc = "greenpt_settled" /\ visualReply.kind = "reject") =>
       OnlyErrors(greenptData) = Some(<<JStr("Greenpt service unavailable")>>)
  /\ visualReply.kind \in {"status", "reject"} => pc \notin {"greenpt_fetch", "threw"}

\* the adapter has returned after the service answered 401
C15_Witness ==
  /\ pc = "greenpt_settled"
  /\ visualReply = HttpStatus(401)
  /\ OnlyErrors(greenptData) = Some(<<JStr("Greenpt API returned 401")>>)

\* C17: for undefined html and for "", evaluateAllMetrics returns exactly five
\* results, in the order readability, cognitive-load, stress, memory, empathy, with
\* the scores 75, 90, 85, 95 and 83 that the formulas give for 0 words, 1 sentence
\* and no hits.
C17_EmptyHtmlScores ==
  (pc = "evaluated" /\ html \in {Undefined, Some("")}) =>
    /\ Len(heuristicMetrics) = 5
    /\ [i \in 1..5 |-> heuristicMetrics[i].id] = MetricIds
    /\ [i \in 1..5 |-> heuristicMetrics[i].score] = <<75, 90, 85, 95, 83>>
    /\ heuristicMetrics[1].evidence.words = 0
    /\ heuristicMetrics[1].evidence.sentences = 1
    /\ heuristicMetrics[1].evidence.headings = 0
    /\ heuristicMetrics[2].evidence.uniqueComponents = 0
    /\ heuristicMetrics[3].evidence.alertWords = 0
    /\ heuristicMetrics[4].evidence.fields = 0
    /\ heuristicMetrics[5].evidence.supportivePhrases = 0

\* evaluateAllMetrics was applied to undefined
C17_Witness ==
  /\ pc = "evaluated"
  /\ html = Undefined
  /\ heuristicMetrics[1].score = 75
  /\ heuristicMetrics[5].score = 83

\* Where stripTags sees an insertion point: Marker is a character no document holds;
\* put in at the point, it is followed through the script/style pass and the tag pass.
Marker == "@"
MarkerAt(s) == {i \in 1..Len(s) : Ch(s, i) = Marker}
BlockFree(s) == ReplaceAllI(ReStyle, ReplaceAllI(ReScript, s, " "), " ")

\* the point is outside every script/style block, and every "<" before it is
\* followed by a ">" before it: it lies in no tag and no "<" is left open
OutsideTagsIn(m) ==
  /\ MarkerAt(m) # {}
  /\ \A s \in 1..(Least(MarkerAt(m)) - 1) :
       Ch(m, s) = "<" => \E g \in (s + 1)..(Least(MarkerAt(m)) - 1) : Ch(m, g) = ">"

\* the point is at an end of the text or has white space, a tag or a block on a side
NotInsideWordIn(t) ==
  \E q \in MarkerAt(t) :
    \/ q = 1
    \/ q = Len(t)
    \/ Ch(t, q - 1) \in WhiteSpace
    \/ Ch(t, q + 1) \in WhiteSpace

SafeInsertion(h, p) ==
  /\ OutsideTagsIn(BlockFree(InsertAt(h, p, Marker)))
  /\ NotInsideWordIn(ReplaceAll(ReTag, BlockFree(InsertAt(h, p, Marker)), " "))

\* C18 as stated: wherever a <button> tag is put into a document, the words value
\* of the readability evidence is the one of the document without it.
C18_ButtonKeepsWordsAnywhere ==
  (pc = "evaluated" /\ Len(trace) = 3) =>
    heuristicMetrics[1].evidence.words = trace[2].words

\* C18 amended: a <button> tag put in outside every tag and script/style block (no
\* "<" left open before it) and not inside a word leaves the words value of the
\* readability evidence unchanged.
C18_ButtonKeepsWordsBetweenTokens ==
  (pc = "evaluated" /\ Len(trace) = 3 /\ SafeInsertion(trace[2].before, trace[2].at)) =>
    heuristicMetrics[1].evidence.words = trace[2].words

\* a <button> was put between two words of a four-word document, not at its ends
C18_Witness ==
  /\ pc = "evaluated"
  /\ Len(trace) = 3
  /\ trace[2].before = "Welcome <b>to</b> the site"
  /\ trace[2].at = 19
  /\ SafeInsertion(trace[2].before, trace[2].at)
  /\ trace[2].words = 4
  /\ heuristicMetrics[1].evidence.words = 4

\* C19: when the chat-completion content is the JSON text of a VisualAnalysisResult
\* object, bare or wrapped in a code fence, analyzeWithGreenpt resolves to a value
\* equal to that object (a field the object lacks is lacking in the value).
C19_WireRoundTrip ==
  (pc = "greenpt_settled" /\ visualReply.kind = "envelope"
     /\ visualReply.data.shape = "content") =>
    \A result \in VisualResults :
      visualReply.data.text \in WireTexts(result) => greenptData = result

\* the adapter returned the result with nested objects whose text came in a json fence
C19_Witness ==
  /\ pc = "greenpt_settled"
  /\ visualReply.kind = "envelope"
  /\ visualReply.data.shape = "content"
  /\ Len(visualReply.data.text) > 7
  /\ SubSeq(visualReply.data.text, 1, 7) = Fence \o "json"
  /\ HasKey(greenptData, "layout")
  /\ greenptData.v.layout.v.focusableElements = JNum(12)
  /\ visualReply.data.text \in WireTexts(greenptData)

\* html has exactly 3 <input> tags, no heading tag and no step/progress/breadcrumb word
ThreeInputExample ==
  /\ pc = "evaluated"
  /\ html # Undefined
  /\ matchCount(ReInput, html) = 3
  /\ matchCount(ReHeading, html) = 0
  /\ matchCount(ReStep, html) = 0

\* none of the readability penalties other than those for headings and for words
NoOtherReadabilityPenalty ==
  /\ heuristicMetrics[1].evidence.words <= 20 * heuristicMetrics[1].evidence.sentences
  /\ heuristicMetrics[1].evidence.smallTextHits = 0
  /\ heuristicMetrics[1].evidence.lowContrastHits = 0
  /\ heuristicMetrics[1].evidence.tightLineHeights = 0
  /\ heuristicMetrics[1].evidence.lightWeightHits = 0
  /\ heuristicMetrics[1].evidence.wideBlockRisk = 0

\* C20 as stated: every html with exactly 3 <input> tags, no step/progress/breadcrumb
\* word and no heading tag has the Memory score 95 and the Readability score 85.
C20_ThreeInputsScores ==
  ThreeInputExample =>
    /\ heuristicMetrics[4].score = 95
    /\ heuristicMetrics[1].score = 85

\* C20 amended: for such an html the Memory score is 95 when it has at most 4 form
\* fields (input, select, textarea) in all; the Readability score is 85 when the text
\* has at least 50 words and no other readability penalty applies, and 75 when the
\* text has fewer than 50 words and no other readability penalty applies.
C20_ThreeInputsScoresByWords ==
  ThreeInputExample =>
    /\ heuristicMetrics[4].evidence.fields <= 4 => heuristicMetrics[4].score = 95
    /\ NoOtherReadabilityPenalty =>
         heuristicMetrics[1].score
           = IF heuristicMetrics[1].evidence.words >= 50 THEN 85 ELSE 75

\* a three-input form with at least 50 words of short sentences scored 95 and 85
C20_Witness ==
  /\ ThreeInputExample
  /\ heuristicMetrics[4].evidence.fields = 3
  /\ heuristicMetrics[1].evidence.words >= 50
  /\ NoOtherReadabilityPenalty
  /\ heuristicMetrics[4].score = 95
  /\ heuristicMetrics[1].score = 85

\* the number of places where the word w stands in the markup h, in any case
Occurrences(w, h) ==
  IF ~Truthy(h) THEN 0
  ELSE Cardinality({i \in 1..(Len(h[1]) - Len(w) + 1) :
                      ToLowerCase(SubSeq(h[1], i, i + Len(w) - 1)) = w})

\* a sum of occurrences over a sequence of words
RECURSIVE OccurrencesOfAll(_, _, _)
OccurrencesOfAll(ws, k, h) ==
  IF k > Len(ws) THEN 0 ELSE Occurrences(ws[k], h) + OccurrencesOfAll(ws, k + 1, h)

\* 85 - 5a - 3r - 2 max(0, i - 6), clamped to 0..100; r counts the places where the
\* red pattern matches: each "#" (with the f and 0 that follow it) and each "red"
StressFormula(a, h) ==
  Max(0, Min(100, 85 - 5 * a
                     - 3 * (Occurrences("#", h) + Occurrences("red", h))
                     - 2 * Max(0, Occurrences("<input", h) - 6)))

\* C21 as stated: the User Stress score is clamp(85 - 5a - 3r - 2 max(0, i - 6)) with a
\* the occurrences of alert, warning, error and urgent; markup without those four
\* keywords loses no keyword penalty.
C21_StressCountsFourKeywords ==
  pc = "evaluated" =>
    heuristicMetrics[3].score
      = StressFormula(OccurrencesOfAll(<<"alert", "warning", "error", "urgent">>, 1, html), html)

\* C21 amended: the User Stress score is clamp(85 - 5a - 3r - 2 max(0, i - 6)) with a the
\* occurrences of alert, warning, error, failed and urgent in any case in the raw
\* markup; "error" twice and "urgent" once, with no other keyword, no red pattern and at
\* most 6 inputs, scores 70.
C21_StressCountsFiveKeywords ==
  pc = "evaluated" =>
    /\ heuristicMetrics[3].score
         = StressFormula(OccurrencesOfAll(<<"alert", "warning", "error", "failed", "urgent">>,
                                          1, html), html)
    /\ heuristicMetrics[3].evidence.alertWords
         = OccurrencesOfAll(<<"alert", "warning", "error", "failed", "urgent">>, 1, html)
    /\ (/\ Occurrences("error", html) = 2
        /\ Occurrences("urgent", html) = 1
        /\ heuristicMetrics[3].evidence.alertWords = 3
        /\ heuristicMetrics[3].evidence.redUsage = 0
        /\ heuristicMetrics[3].evidence.denseInputs <= 6) => heuristicMetrics[3].score = 70

\* "error" twice and "urgent" once were scored 70
C21_Witness ==
  /\ pc = "evaluated"
  /\ html = Some("error urgent error ")
  /\ heuristicMetrics[3].evidence.alertWords = 3
  /\ heuristicMetrics[3].score = 70

\* the number of tags of h whose name is exactly name: "<name" not followed by a
\* further character of a tag name
TagsNamed(name, h) ==
  IF ~Truthy(h) THEN 0
  ELSE LET lower == ToLowerCase(h[1])
           n == Len(name) + 1
       IN Cardinality({i \in 1..(Len(lower) - n + 1) :
            /\ SubSeq(lower, i, i + n - 1) = "<" \o name
            /\ i + n <= Len(lower) => Ch(lower, i + n) \notin (LowerLetter \cup Digit \cup {"-"})})

\* the button, link, input, select and textarea tags of h
InteractiveTags(h) ==
  TagsNamed("button", h) + TagsNamed("a", h) + TagsNamed("input", h)
    + TagsNamed("select", h) + TagsNamed("textarea", h)

\* C22: without a font-size or paragraph-length penalty the Cognitive Load score is
\* 90 less the distinct tag names less 2 for each interactive element beyond 8, where
\* only button, a, input, select and textarea tags are interactive elements.
C22_OnlyInteractiveTagsCount ==
  (/\ pc = "evaluated"
   /\ heuristicMetrics[2].evidence.uniqueFontSizes <= 6
   /\ heuristicMetrics[1].evidence.words <= 80) =>
    /\ heuristicMetrics[2].evidence.interactiveElements = InteractiveTags(html)
    /\ heuristicMetrics[2].score
         = Max(0, Min(100, 90 - heuristicMetrics[2].evidence.uniqueComponents
                              - 2 * Max(0, InteractiveTags(html) - 8)))

\* the number of recommendation strings of the metrics before the i-th
RECURSIVE RecommendationsBefore(_, _)
RecommendationsBefore(ms, i) ==
  IF i <= 1 THEN 0
  ELSE RecommendationsBefore(ms, i - 1) + Len(ms[i - 1].recommendations)

\* the n-th entry of recs is made of the k-th recommendation of the i-th metric
EntryOf(recs, n, ms, i, k) ==
  /\ recs[n].v.title.v = ms[i].label \o " Improvement"
  /\ recs[n].v.description.v = ms[i].recommendations[k]
  /\ recs[n].v.effort.v = "medium"
  /\ recs[n].v.impact.v = IF ms[i].score < 50 THEN "high"
                          ELSE IF ms[i].score < 70 THEN "medium" ELSE "low"

FlattenedFirstEight(recs, ms) ==
  /\ Len(recs) = Min(8, RecommendationsBefore(ms, Len(ms) + 1))
  /\ \A i \in 1..Len(ms) : \A k \in 1..Len(ms[i].recommendations) :
       RecommendationsBefore(ms, i) + k <= 8
         => EntryOf(recs, RecommendationsBefore(ms, i) + k, ms, i, k)

\* C23: in the fallback path recommendations is the first 8 entries of the metrics'
\* recommendation strings flattened in metric order and, within a metric, in
\* recommendation order; each is titled "{label} Improvement", has effort "medium" and
\* impact "high" below 50, "medium" below 70 and "low" otherwise.
C23_FallbackRecommendations ==
  (pc = "llm_settled" /\ path = "fallback")
    => FlattenedFirstEight(llmAnalysis.v.recommendations.v, llmRequest.metrics)

\* nine recommendation strings of four metrics, of all three impacts, cut to eight
C23_Witness ==
  /\ pc = "llm_settled"
  /\ path = "fallback"
  /\ Len(llmRequest.metrics) = 4
  /\ RecommendationsBefore(llmRequest.metrics, 5) = 9
  /\ Len(llmAnalysis.v.recommendations.v) = 8
  /\ llmRequest.metrics[1].score = 49
  /\ llmRequest.metrics[2].score = 50
  /\ llmRequest.metrics[4].score = 70
  /\ llmAnalysis.v.recommendations.v[1].v.impact.v = "high"
  /\ llmAnalysis.v.recommendations.v[4].v.impact.v = "medium"
  /\ llmAnalysis.v.recommendations.v[8].v.impact.v = "low"
  /\ llmAnalysis.v.recommendations.v[8].v.description.v = "Tip 2 for metric 4"

\* the number of metrics of ms that score below 70
SubSeventy(ms) == Cardinality({i \in 1..Len(ms) : ms[i].score < 70})

\* the one-line summary that embeds the score text and the count
SummaryLine(scoreText, count) ==
  "Overall accessibility score: " \o scoreText \o "/100. " \o ToString(count)
    \o " key areas need attention."

\* `${avgScore}` of the overallScore of the result
OverallScoreText(result) ==
  IF result.v.overallScore = JNaN THEN "NaN" ELSE ToString(result.v.overallScore.v)

\* C24 as stated: in the fallback path the count embedded in summary is the number of
\* supplied metrics that score below 70, for every metric list, and the score embedded
\* in summary is overallScore.
C24_SummaryCountsSubSeventy ==
  (pc = "llm_settled" /\ path = "fallback")
    => llmAnalysis.v.summary.v
         = SummaryLine(OverallScoreText(llmAnalysis), SubSeventy(llmRequest.metrics))

\* C24 amended: in the fallback path the count embedded in summary is the number of
\* entries of topIssues, that is the number of supplied metrics that score below 70 or
\* 3 if there are more than three of them, and the score embedded in summary is
\* overallScore.
C24_SummaryCountsTopIssues ==
  (pc = "llm_settled" /\ path = "fallback")
    => /\ llmAnalysis.v.summary.v
            = SummaryLine(OverallScoreText(llmAnalysis), Min(3, SubSeventy(llmRequest.metrics)))
       /\ Len(llmAnalysis.v.topIssues.v) = Min(3, SubSeventy(llmRequest.metrics))

\* four metrics below 70, and the summary speaks of 3 areas
C24_Witness ==
  /\ pc = "llm_settled"
  /\ path = "fallback"
  /\ SubSeventy(llmRequest.metrics) = 4
  /\ llmAnalysis.v.overallScore = JNum(42)
  /\ llmAnalysis.v.summary.v
       = "Overall accessibility score: 42/100. 3 key areas need attention."

\* the adapter's JSON.parse of what it cut out of the content fails
ContentUnparsable(text) == ~JsonParse(GreenptJsonText(text)).ok

\* one of the two overall-score patterns finds a number in the raw text
ScoreExtractable(text) ==
  \/ Starts(ReOverallScore, ToLowerCase(text)) # {}
  \/ Starts(ReOverallAnyScore, ToLowerCase(text)) # {}

\* C25: when the visual service answers successfully but its content cannot be parsed
\* as JSON, the result carries the raw response text under textExtraction.text; it
\* carries overallScore and no errors entry if an overall-score number can be taken
\* from the raw text, and otherwise an errors entry on the parse failure and no
\* overallScore.
C25_UnparsableContentKeepsText ==
  (/\ pc = "greenpt_settled"
   /\ visualReply.kind = "envelope"
   /\ visualReply.data.shape = "content"
   /\ ContentUnparsable(visualReply.data.text)) =>
    /\ IsObject(greenptData)
    /\ HasKey(greenptData, "textExtraction")
    /\ greenptData.v.textExtraction = JObj([text |-> JStr(visualReply.data.text)])
    /\ IF ScoreExtractable(visualReply.data.text)
       THEN /\ HasKey(greenptData, "overallScore")
            /\ greenptData.v.overallScore.t = "number"
            /\ ~HasKey(greenptData, "errors")
       ELSE /\ ~HasKey(greenptData, "overallScore")
            /\ HasKey(greenptData, "errors")
            /\ greenptData.v.errors
                 = JArr(<<JStr("Could not parse structured response from Greenpt")>>)

\* prose with a score in it: the score was taken from the text, and no errors entry made
C25_Witness ==
  /\ pc = "greenpt_settled"
  /\ visualReply.kind = "envelope"
  /\ visualReply.data.shape = "content"
  /\ visualReply.data.text = "My overall rating, as a score: 58."
  /\ ContentUnparsable(visualReply.data.text)
  /\ greenptData.v.overallScore = JNum(58)
  /\ greenptData.v.textExtraction.v.text = JStr("My overall rating, as a score: 58.")
  /\ ~HasKey(greenptData, "errors")

\* texts that may follow the JSON object in the content
TrailingTexts == {" Note: {draft}", " Done."}

\* C26: when the content of a successful visual-service response is one well-formed
\* JSON object followed by further text, text with braces included, the adapter's
\* result is that first object.
C26_FirstObjectReturned ==
  (pc = "greenpt_settled" /\ visualReply.kind = "envelope"
     /\ visualReply.data.shape = "content") =>
    \A result \in VisualResults \cup {JObj([overallScore |-> JNum(72)])} :
      \A tail \in TrailingTexts :
        visualReply.data.text = JsonStringify(result) \o tail => greenptData = result

\* the eight readability recommendations in the order of their rules
ReadabilityRuleOrder ==
  <<"Break long sentences into 2-3 clauses for easier scanning.",
    "Add hierarchy with headings or section labels.",
    "Ensure enough descriptive text to set context for the screen.",
    "Keep body copy at 16-18px to avoid penalising readers.",
    "Boost color contrast to meet WCAG AA (4.5:1 for body text).",
    "Use 1.5-1.7 line height for multi-line paragraphs.",
    "Constrain long paragraphs to ~70 characters (~44rem) for easier tracking.",
    "Use regular, medium, or semibold weights for core text.">>

RuleIndex(text) == CHOOSE k \in 1..8 : ReadabilityRuleOrder[k] = text

\* the low-contrast penalty of the evidence e
LowContrastPenalty(e) == IF e.lowContrastHits * 4 > 20 THEN 20 ELSE e.lowContrastHits * 4

\* the penalties that do not depend on the sentence length
FlatPenalties(e) ==
  (IF e.headings = 0 THEN 15 ELSE 0) + (IF e.words < 50 THEN 10 ELSE 0)
    + 4 * e.smallTextHits + LowContrastPenalty(e) + 3 * e.tightLineHeights
    + 4 * e.lightWeightHits + 6 * e.wideBlockRisk

\* score is clamp(100 - P): with s sentences and w words, (100 - P) * s is
\* (100 - flat) * s less 2 * (w - 20 * s) when w / s exceeds 20; rounded to the nearest
\* integer, a half going up, and brought into 0..100
IsReadabilityScore(score, e) ==
  LET n == (100 - FlatPenalties(e)) * e.sentences
           - (IF e.words > 20 * e.sentences THEN 2 * (e.words - 20 * e.sentences) ELSE 0)
  IN \E r \in -1000..100 :
       /\ 2 * e.sentences * r - e.sentences <= 2 * n
       /\ 2 * n < 2 * e.sentences * r + e.sentences
       /\ score = IF r < 0 THEN 0 ELSE r

\* C27: the Readability score is clamp(100 - P), P the sum of the penalties for long
\* sentences, no heading, few words, small text, low contrast (at most 20), tight line
\* height, light weight and wide blocks; the recommendations come in the order of the
\* rules whichever penalties applied.
C27_ReadabilityPenalties ==
  pc = "evaluated" =>
    /\ heuristicMetrics[1].evidence.sentences >= 1
    /\ IsReadabilityScore(heuristicMetrics[1].score, heuristicMetrics[1].evidence)
    /\ \A k \in 1..Len(heuristicMetrics[1].recommendations) :
         /\ \E n \in 1..8 : ReadabilityRuleOrder[n] = heuristicMetrics[1].recommendations[k]
         /\ \A l \in 1..(k - 1) :
              RuleIndex(heuristicMetrics[1].recommendations[l])
                < RuleIndex(heuristicMetrics[1].recommendations[k])

\* six low-contrast hits cost 20, not 24: 100 - 15 - 10 - 20
C27_Witness ==
  /\ pc = "evaluated"
  /\ heuristicMetrics[1].evidence.lowContrastHits = 6
  /\ heuristicMetrics[1].evidence.headings = 0
  /\ heuristicMetrics[1].evidence.words = 0
  /\ heuristicMetrics[1].evidence.wideBlockRisk = 0
  /\ heuristicMetrics[1].score = 55
  /\ heuristicMetrics[1].recommendations
       = <<ReadabilityRuleOrder[2], ReadabilityRuleOrder[3], ReadabilityRuleOrder[5]>>

SupportiveAdvice == "Narrate intent with plain, supportive language."
JargonAdvice == "Swap internal jargon for user-facing words."
TypographyAdvice ==
  "Keep typography calm (16px+, strong contrast) so helpful content feels trustworthy."

\* the recommendations of the Empathy Alignment result, as a set
EmpathyAdvice == {heuristicMetrics[5].recommendations[k]
                    : k \in 1..Len(heuristicMetrics[5].recommendations)}

\* the supportive and the jargon recommendation appear exactly on their conditions
LanguageAdviceOk ==
  /\ SupportiveAdvice \in EmpathyAdvice <=> heuristicMetrics[5].evidence.supportivePhrases < 2
  /\ JargonAdvice \in EmpathyAdvice <=> heuristicMetrics[5].evidence.jargonHits > 0

\* C28 as stated: the Empathy Alignment result holds the typography recommendation
\* whenever the small-text, the low-contrast or the tight-line-height counter is
\* positive; the supportive recommendation appears exactly when the supportive count
\* is below 2, the jargon recommendation exactly when the jargon count is above 0.
C28_AdviceOnAnyTypographyHit ==
  pc = "evaluated" =>
    /\ (\/ heuristicMetrics[1].evidence.smallTextHits > 0
        \/ heuristicMetrics[1].evidence.lowContrastHits > 0
        \/ heuristicMetrics[1].evidence.tightLineHeights > 0) => TypographyAdvice \in EmpathyAdvice
    /\ LanguageAdviceOk

\* C28 amended: the typography recommendation appears exactly when the small-text or
\* the low-contrast counter is positive, whatever the tight-line-height counter is; the
\* supportive and the jargon recommendation as stated.
C28_AdviceOnSmallOrLowContrast ==
  pc = "evaluated" =>
    /\ TypographyAdvice \in EmpathyAdvice
         <=> (\/ heuristicMetrics[1].evidence.smallTextHits > 0
              \/ heuristicMetrics[1].evidence.lowContrastHits > 0)
    /\ LanguageAdviceOk

\* small and low-contrast text around two supportive words and one jargon word
C28_Witness ==
  /\ pc = "evaluated"
  /\ heuristicMetrics[1].evidence.smallTextHits > 0
  /\ heuristicMetrics[1].evidence.lowContrastHits > 0
  /\ heuristicMetrics[1].evidence.tightLineHeights = 0
  /\ heuristicMetrics[5].evidence.supportivePhrases = 2
  /\ heuristicMetrics[5].evidence.jargonHits = 1
  /\ heuristicMetrics[5].recommendations = <<JargonAdvice, TypographyAdvice>>

\* C29: the calmTypographyBonus flag of the Empathy Alignment evidence is true if and
\* only if the +8 calm-typography bonus was added to the score: of what the score has
\* above 70 + 5 * supportive - 4 * jargon, 8 or 13 holds the bonus and 0 or 5 does not
\* (scores the clamp may have cut are left aside).
C29_FlagMatchesBonus ==
  (/\ pc = "evaluated"
   /\ heuristicMetrics[5].score > 0
   /\ heuristicMetrics[5].score < 100) =>
    (heuristicMetrics[5].evidence.calmTypographyBonus
       <=> heuristicMetrics[5].score
             - (70 + 5 * heuristicMetrics[5].evidence.supportivePhrases
                   - 4 * heuristicMetrics[5].evidence.jargonHits) \in {8, 13})

\* C30: every headless browser the ingestion handler launched is closed when the
\* handler returns its response, also when page creation, navigation or the screenshot
\* failed after the launch.
C30_BrowserClosedOnReturn ==
  pc = "responded" => browser # "open"

=============================================================================
